---------------------------- MODULE Spec2Model ----------------------------
(***************************************************************************)
(* A model of the particle lexer generator: the byte-level NFA algebra,   *)
(* subset construction, DFA minimization (src/src/automatons.rs) and the  *)
(* scan loop Lexer::next_token (src/src/lexer.rs).                        *)
(***************************************************************************)
EXTENDS Integers, Sequences, FiniteSets, TLC

(***************************************************************************)
(* Bounds of the model.                                                    *)
(***************************************************************************)
\* longest input string handed to a scan state
MaxInputLen == 4

\* longest byte string two DFAs are compared on
MaxProbeLen == 3

\* longest pattern enumerated for compile_regex
MaxRegexLen == 4

\* longest enumerated input of the lexers built from patterns
MaxScenarioLen == 2

\* most combinators applied on top of an atom of the NFA algebra
MaxAlgDepth == 2

\* the number of items of a character class
MaxClassItems == 2

(***************************************************************************)
(* Generic helpers.                                                        *)
(***************************************************************************)
Range(f) == {f[i] : i \in DOMAIN f}

MaxOr0(S) == IF S = {} THEN 0 ELSE CHOOSE m \in S : \A x \in S : x <= m

MinOf(S) == CHOOSE m \in S : \A x \in S : m <= x

RECURSIVE SetToSeq(_)
\* the elements of a finite set of integers in ascending order
SetToSeq(S) == IF S = {} THEN <<>>
               ELSE LET m == MinOf(S) IN <<m>> \o SetToSeq(S \ {m})

RECURSIVE Reverse(_)
Reverse(s) == IF s = <<>> THEN <<>> ELSE Reverse(Tail(s)) \o <<Head(s)>>

RECURSIVE SeqsUpTo(_, _)
\* all sequences over S of length at most n
SeqsUpTo(S, n) == IF n = 0 THEN {<<>>}
                  ELSE LET shorter == SeqsUpTo(S, n - 1)
                       IN shorter \cup {<<x>> \o s : x \in S, s \in {t \in shorter : Len(t) = n - 1}}

(***************************************************************************)
(* Characters are Unicode scalar values; char::encode_utf8 as used by      *)
(* NFA::from(char) and Lexer::next_token.                                  *)
(***************************************************************************)
encode_utf8(ch) ==
    IF ch < 128 THEN <<ch>>
    ELSE IF ch < 2048 THEN <<192 + (ch \div 64), 128 + (ch % 64)>>
    ELSE IF ch < 65536 THEN <<224 + (ch \div 4096), 128 + ((ch \div 64) % 64), 128 + (ch % 64)>>
    ELSE <<240 + (ch \div 262144), 128 + ((ch \div 4096) % 64),
           128 + ((ch \div 64) % 64), 128 + (ch % 64)>>

(***************************************************************************)
(* NFA (automatons.rs).  transitions is the MultiMap<(StateId,Transition), *)
(* StateId> kept as the sequence of its <<from, transition, to>> entries:  *)
(* the entries of one key are in insertion order, as in the key's Vec.     *)
(***************************************************************************)
Epsilon == -1

DEFAULT_BRANCH_ID == 0

NFANew == [initial_state |-> 0, final_states |-> <<>>, transitions |-> <<>>]

\* MultiMap::get_vec: the targets stored under a key, in insertion order
get_vec(nfa, u, t) ==
    LET tr == nfa.transitions
        at == {i \in DOMAIN tr : tr[i][1] = u /\ tr[i][2] = t}
    IN [k \in 1..Cardinality(at) |->
           tr[CHOOSE i \in at : Cardinality({j \in at : j <= i}) = k][3]]

\* MultiMap::iter: every key with the FIRST target of its Vec
MultiMapIter(tr) ==
    {tr[i] : i \in {j \in DOMAIN tr :
                      \A k \in 1..(j - 1) : ~(tr[k][1] = tr[j][1] /\ tr[k][2] = tr[j][2])}}

NFAMaxStateId(nfa) ==
    MaxOr0({IF e[1] >= e[3] THEN e[1] ELSE e[3] : e \in MultiMapIter(nfa.transitions)})

\* impl From<char> for NFA
NFAFromChar(ch) ==
    LET bs == encode_utf8(ch)
    IN [initial_state |-> 0,
        final_states  |-> (Len(bs) :> DEFAULT_BRANCH_ID),
        transitions   |-> [i \in 1..Len(bs) |-> <<i - 1, bs[i], i>>]]

\* impl From<&str> for NFA, bs being s.as_bytes()
NFAFromStr(bs) ==
    [initial_state |-> 0,
     final_states  |-> (Len(bs) :> DEFAULT_BRANCH_ID),
     transitions   |-> [i \in 1..Len(bs) |-> <<i - 1, bs[i], i>>]]

\* the right operand's entries renumbered by bias
Biased(tr, bias) == [i \in DOMAIN tr |-> <<tr[i][1] + bias, tr[i][2], tr[i][3] + bias>>]

BiasedFinals(fs, bias) == [x \in {y + bias : y \in DOMAIN fs} |-> fs[x - bias]]

\* epsilon entries from every state of a map's key set to one target
EpsilonEdges(fs, target) ==
    LET xs == SetToSeq(DOMAIN fs) IN [i \in DOMAIN xs |-> <<xs[i], Epsilon, target>>]

\* impl BitAnd for NFA (concatenation)
bitand(self, rhs) ==
    LET bias == NFAMaxStateId(self) + 1
    IN [initial_state |-> self.initial_state,
        final_states  |-> BiasedFinals(rhs.final_states, bias),
        transitions   |-> self.transitions
                          \o EpsilonEdges(self.final_states, rhs.initial_state + bias)
                          \o Biased(rhs.transitions, bias)]

\* impl BitOr for NFA (alternation)
bitor(self, rhs) ==
    LET bias == NFAMaxStateId(self) + 1
        new_initial == bias + NFAMaxStateId(rhs) + 1
    IN [initial_state |-> new_initial,
        final_states  |-> BiasedFinals(rhs.final_states, bias) @@ self.final_states,
        transitions   |-> self.transitions
                          \o Biased(rhs.transitions, bias)
                          \o <<<<new_initial, Epsilon, self.initial_state>>,
                               <<new_initial, Epsilon, rhs.initial_state + bias>>>>]

\* NFA::set_branch
set_branch(nfa, branch) ==
    [nfa EXCEPT !.final_states = [x \in DOMAIN nfa.final_states |-> branch]]

\* mutant: the final states are kept and the initial state is not made final
zero_or_more_keep_finals(self) ==
    [initial_state |-> self.initial_state,
     final_states  |-> self.final_states,
     transitions   |-> self.transitions
                       \o EpsilonEdges(self.final_states, self.initial_state)]

\* NFA::zero_or_more
zero_or_more(self) ==
    [initial_state |-> self.initial_state,
     final_states  |-> (self.initial_state :> DEFAULT_BRANCH_ID),
     transitions   |-> self.transitions
                       \o EpsilonEdges(self.final_states, self.initial_state)]

\* NFA::one_or_more
one_or_more(self) == bitand(self, zero_or_more(self))

\* NFA::optional
optional(self) ==
    LET new_final == NFAMaxStateId(self) + 1
    IN [initial_state |-> self.initial_state,
        final_states  |-> (new_final :> DEFAULT_BRANCH_ID),
        transitions   |-> self.transitions
                          \o EpsilonEdges(self.final_states, new_final)
                          \o <<<<self.initial_state, Epsilon, new_final>>>>]

\* NFA::epsilon_closure: the set the worklist loop ends with
RECURSIVE EpsilonClosureLoop(_, _, _)
EpsilonClosureLoop(nfa, ret, stack) ==
    IF stack = <<>> THEN ret
    ELSE LET u == stack[Len(stack)]
             fresh == Range(get_vec(nfa, u, Epsilon)) \ ret
         IN EpsilonClosureLoop(nfa, ret \cup fresh,
                               SubSeq(stack, 1, Len(stack) - 1) \o SetToSeq(fresh))

epsilon_closure(nfa, s) == EpsilonClosureLoop(nfa, {s}, <<s>>)

\* mutant: the targets are taken without their epsilon closures
transition_set_direct(nfa, from, input) ==
    UNION {Range(get_vec(nfa, u, input)) : u \in from}

\* NFA::transition_set
transition_set(nfa, from, input) ==
    UNION {epsilon_closure(nfa, v) : v \in UNION {Range(get_vec(nfa, u, input)) : u \in from}}

(***************************************************************************)
(* impl From<(char, char)> for NFA (automatons.rs).  Utf8Sequences is the  *)
(* iterator of the utf8-ranges crate: the scalar range is cut into ranges  *)
(* whose encodings have one length and form a product of byte ranges, in   *)
(* ascending order, the surrogates left out.                               *)
(***************************************************************************)
\* the largest scalar value encoded in nbytes bytes
max_scalar_value(nbytes) == IF nbytes = 1 THEN 127 ELSE IF nbytes = 2 THEN 2047 ELSE 65535

\* 1 << (6 * i)
ContinuationSpan(i) == IF i = 1 THEN 64 ELSE IF i = 2 THEN 4096 ELSE 262144

\* the byte ranges between the encodings of two scalars of one length
EncodedRange(s, e) ==
    LET bs == encode_utf8(s)
        be == encode_utf8(e)
    IN [i \in DOMAIN bs |-> <<bs[i], be[i]>>]

RECURSIVE Utf8Next(_), Utf8Inner(_, _, _)
\* the sequences still to come when range_stack is the stack of ranges
Utf8Next(stack) ==
    IF stack = <<>> THEN <<>>
    ELSE Utf8Inner(stack[Len(stack)][1], stack[Len(stack)][2],
                   SubSeq(stack, 1, Len(stack) - 1))

Utf8Inner(s, e, stack) ==
    IF s < 57344 /\ e > 55295
    THEN Utf8Inner(s, 55295, Append(stack, <<57344, e>>))
    ELSE IF s > e THEN Utf8Next(stack)
    ELSE LET lens == {i \in 1..3 : s <= max_scalar_value(i) /\ max_scalar_value(i) < e}
             cuts == {i \in 1..3 :
                        /\ s - (s % ContinuationSpan(i)) # e - (e % ContinuationSpan(i))
                        /\ \/ s % ContinuationSpan(i) # 0
                           \/ e % ContinuationSpan(i) # ContinuationSpan(i) - 1}
         IN IF lens # {}
            THEN LET max == max_scalar_value(MinOf(lens))
                 IN Utf8Inner(s, max, Append(stack, <<max + 1, e>>))
            ELSE IF e <= 127 THEN <<<<<<s, e>>>>>> \o Utf8Next(stack)
            ELSE IF cuts # {}
            THEN LET m == ContinuationSpan(MinOf(cuts))
                 IN IF s % m # 0
                    THEN Utf8Inner(s, s - (s % m) + m - 1,
                                   Append(stack, <<s - (s % m) + m, e>>))
                    ELSE Utf8Inner(s, e - (e % m) - 1, Append(stack, <<e - (e % m), e>>))
            ELSE <<EncodedRange(s, e)>> \o Utf8Next(stack)

\* Utf8Sequences::new(start, end), collected
Utf8Sequences(start, end) == Utf8Next(<<<<start, end>>>>)

RECURSIVE SeqEdges(_, _, _)
\* the entries inserted for one sequence: a chain of states from `last`
SeqEdges(seq, last, next_id) ==
    IF seq = <<>> THEN <<>>
    ELSE LET r == Head(seq)
         IN [i \in 1..(r[2] - r[1] + 1) |-> <<last, r[1] + i - 1, next_id>>]
            \o SeqEdges(Tail(seq), next_id, next_id + 1)

RECURSIVE RangeLoop(_, _, _)
\* the `for seq in Utf8Sequences::new(..)` loop
RangeLoop(seqs, next_id, ret) ==
    IF seqs = <<>> THEN ret
    ELSE LET seq == Head(seqs)
         IN RangeLoop(Tail(seqs), next_id + Len(seq),
                [ret EXCEPT !.transitions = @ \o SeqEdges(seq, 0, next_id),
                            !.final_states = ((next_id + Len(seq) - 1) :> DEFAULT_BRANCH_ID) @@ @])

\* impl From<(char, char)> for NFA
NFAFromRange(l, r) == RangeLoop(Utf8Sequences(l, r), 1, NFANew)

(***************************************************************************)
(* The regex parser (regex.rs).  The Peekable<Chars> is the sequence of    *)
(* the characters not yet consumed.  A parse function returns a record     *)
(* with the iterator it leaves behind: kind "Ok" with its value, "Err"     *)
(* with its message, or "Panic" when an unwrap or an arithmetic check      *)
(* fails.  The parser never inspects the NFAs it combines: the value of a  *)
(* parse is kept as the expression of NFA operations it has applied, and   *)
(* Build evaluates the expression with the operations themselves.          *)
(***************************************************************************)
Backslash == 92
Quote == 39
DoubleQuote == 34
Digit0 == 48
LowerN == 110
LowerR == 114
LowerT == 116
LowerX == 120
LowerU == 117
LBrace == 123
RBrace == 125
LParen == 40
RParen == 41
LBracket == 91
RBracket == 93
Bar == 124
Star == 42
Plus == 43
Question == 63
Dot == 46
Caret == 94
Dash == 45

\* it.peek() of an exhausted iterator
NoChar == -1

Peek(it) == IF it = <<>> THEN NoChar ELSE Head(it)

\* the iterator after it.next()
Advance(it) == IF it = <<>> THEN <<>> ELSE Tail(it)

Ok(val, it) == [kind |-> "Ok", val |-> val, it |-> it]

Err(msg, it) == [kind |-> "Err", msg |-> msg, it |-> it]

Panic(it) == [kind |-> "Panic", it |-> it]

\* char::is_digit(16)
IsHexDigit(ch) == ch \in (48..57) \cup (97..102) \cup (65..70)

\* char::to_digit(16)
HexValue(ch) == IF ch \in 48..57 THEN ch - 48
                ELSE IF ch \in 97..102 THEN ch - 87 ELSE ch - 55

\* char::from_u32 is Some
IsScalar(v) == v >= 0 /\ v <= 1114111 /\ ~(v >= 55296 /\ v <= 57343)

\* lines 46-61: `\xHH`, the iterator peeking at 'x'
AsciiEscape(it) ==
    LET it1 == Advance(it)
        it2 == Advance(it1)
    IN IF ~IsHexDigit(Peek(it1))
       THEN Err("Expected digit following ascii escape sequence", it1)
       ELSE IF ~IsHexDigit(Peek(it2))
       THEN Err("Expected digit following ascii escape sequence", it2)
       ELSE Ok(((HexValue(Peek(it1)) * 16) % 256) + HexValue(Peek(it2)), Advance(it2))

RECURSIVE UnicodeDigits(_, _, _)
\* lines 69-80: the loop over the digits of `\u{...}`; val is the u32
\* hi * 2^16 + lo, and `(val << 4) + digit` drops the bits shifted out
UnicodeDigits(it, hi, lo) ==
    LET it1 == Advance(it)
    IN IF IsHexDigit(Peek(it1))
       THEN UnicodeDigits(it1, ((hi * 16) + (lo \div 4096)) % 65536,
                          ((lo % 4096) * 16) + HexValue(Peek(it1)))
       ELSE IF Peek(it1) = RBrace
       THEN (IF hi <= 16 /\ IsScalar((hi * 65536) + lo)
             THEN Ok((hi * 65536) + lo, Advance(it1))
             ELSE Err("Invalid unicode in escape", Advance(it1)))
       ELSE Err("Expecting '}' or hexadecimal digits", Advance(it1))

\* lines 62-84: `\u{...}`, the iterator peeking at 'u'
UnicodeEscape(it) ==
    LET it1 == Advance(it)
    IN IF Peek(it1) = LBrace THEN UnicodeDigits(it1, 0, 0)
       ELSE Err("Invalid unicode escape", Advance(it1))

\* the characters parse_char refuses when they are not escaped
Metachars == {LParen, RParen, LBracket, RBracket, Bar, Star, Plus, Question, Dot, Caret}

\* mutant: an escaped character is taken for the backslash itself
parse_char_keep_backslash(it) ==
    IF Peek(it) = NoChar THEN Err("Expecting character, found end of string", it)
    ELSE IF Peek(it) \in Metachars THEN Err("Expecting character, found metacharacter", Advance(it))
    ELSE Ok(Peek(it), Advance(it))

parse_char(it) ==
    LET ch == Peek(it)
        it1 == Advance(it)
        esc == Peek(it1)
    IN IF ch = Backslash
       THEN (IF esc \in {Backslash, Quote, DoubleQuote} THEN Ok(esc, Advance(it1))
             ELSE IF esc = Digit0 THEN Ok(0, Advance(it1))
             ELSE IF esc = LowerN THEN Ok(10, Advance(it1))
             ELSE IF esc = LowerR THEN Ok(13, Advance(it1))
             ELSE IF esc = LowerT THEN Ok(9, Advance(it1))
             ELSE IF esc = LowerX THEN AsciiEscape(it1)
             ELSE IF esc = LowerU THEN UnicodeEscape(it1)
             ELSE IF esc = NoChar
             THEN Err("Expecting a character after escape '\\'", Advance(it1))
             ELSE Ok(esc, Advance(it1)))
       \* lines 88-97: the message names the character found
       ELSE IF ch \in Metachars THEN Err("Expecting character, found metacharacter", it1)
       ELSE IF ch = NoChar THEN Err("Expecting character, found end of string", it1)
       ELSE Ok(ch, it1)

\* `*endpoints.entry(k).or_default() += d`
EndpointAdd(endpoints, k, d) ==
    IF k \in DOMAIN endpoints THEN [endpoints EXCEPT ![k] = @ + d]
    ELSE (k :> d) @@ endpoints

\* nfa.map_or(n, |m| m | n)
OrInto(nfa, n) == IF nfa = <<>> THEN n ELSE <<"or", nfa, n>>

RECURSIVE SweepLoop(_, _, _, _, _, _)
\* lines 123-136: the sweep over the endpoints in ascending order; begin is
\* NoChar for None, nfa is <<>> for None
SweepLoop(keys, endpoints, negate, cov, begin, nfa) ==
    IF keys = <<>> THEN [kind |-> "Ok", nfa |-> nfa]
    ELSE LET i == Head(keys)
             now == cov + endpoints[i]
             in_interval == ((now > 0) # negate)
         IN IF begin = NoChar /\ in_interval
            THEN SweepLoop(Tail(keys), endpoints, negate, now, i, nfa)
            ELSE IF begin # NoChar /\ ~in_interval
            THEN (IF ~IsScalar(begin) \/ i = 0 \/ ~IsScalar(i - 1) THEN [kind |-> "Panic"]
                  ELSE SweepLoop(Tail(keys), endpoints, negate, now, NoChar,
                                 OrInto(nfa, <<"range", begin, i - 1>>)))
            ELSE SweepLoop(Tail(keys), endpoints, negate, now, begin, nfa)

\* lines 118-146: the class is closed, the iterator past the ']'
ClassEnd(it, negate, endpoints) ==
    LET keys == SetToSeq(DOMAIN endpoints)
        last == IF keys = <<>> THEN 0 ELSE keys[Len(keys)]
        swept == SweepLoop(keys, endpoints, negate, 0, IF negate THEN 0 ELSE NoChar, <<>>)
    IN IF swept.kind = "Panic" THEN Panic(it)
       ELSE IF negate
       THEN (IF ~IsScalar(last) THEN Panic(it)
             ELSE Ok(OrInto(swept.nfa, <<"range", last, 65535>>), it))
       ELSE IF swept.nfa = <<>> THEN Err("NFA not constructed for char class!", it)
       ELSE Ok(swept.nfa, it)

RECURSIVE ClassLoop(_, _, _)
\* lines 116-169: the loop over the items of a class
ClassLoop(it, negate, endpoints) ==
    IF Peek(it) = RBracket THEN ClassEnd(Advance(it), negate, endpoints)
    ELSE IF Peek(it) = NoChar THEN Err("Missing ']' at the end of a char class", it)
    ELSE LET Span(l, r) ==
                 IF r.kind # "Ok" THEN r
                 ELSE ClassLoop(r.it, negate,
                          EndpointAdd(EndpointAdd(endpoints, l.val, 1), r.val + 1, -1))
             Item(l) ==
                 IF l.kind # "Ok" THEN l
                 ELSE IF Peek(l.it) = Dash THEN Span(l, parse_char(Advance(l.it)))
                 ELSE ClassLoop(l.it, negate,
                          EndpointAdd(EndpointAdd(endpoints, l.val, 1), l.val + 1, -1))
         IN Item(parse_char(it))

parse_class(it) ==
    LET it1 == Advance(it)
        negate == (Peek(it1) = Caret)
    IN ClassLoop(IF negate THEN Advance(it1) ELSE it1, negate, <<>>)

RECURSIVE parse_regex(_), parse_concat(_), parse_repetition(_), parse_elementary(_),
          parse_group(_), RegexLoop(_, _), ConcatLoop(_, _), RepetitionLoop(_, _)

parse_group(it) ==
    LET Close(ret) ==
            IF ret.kind = "Panic" THEN ret
            ELSE IF Peek(ret.it) = RParen THEN [ret EXCEPT !.it = Advance(ret.it)]
            ELSE Err("Expecting ')' to match with '('", ret.it)
    IN Close(parse_regex(Advance(it)))

parse_elementary(it) ==
    IF Peek(it) = LBracket THEN parse_class(it)
    ELSE IF Peek(it) = LParen THEN parse_group(it)
    ELSE IF Peek(it) = Dot THEN Ok(<<"range", 0, 65535>>, Advance(it))
    ELSE LET FromChar(ch) == IF ch.kind = "Ok" THEN Ok(<<"char", ch.val>>, ch.it) ELSE ch
         IN FromChar(parse_char(it))

\* lines 197-213: the loop over the repetition operators
RepetitionLoop(it, nfa) ==
    IF Peek(it) = Star THEN RepetitionLoop(Advance(it), <<"star", nfa>>)
    ELSE IF Peek(it) = Plus THEN RepetitionLoop(Advance(it), <<"plus", nfa>>)
    ELSE IF Peek(it) = Question THEN RepetitionLoop(Advance(it), <<"opt", nfa>>)
    ELSE Ok(nfa, it)

parse_repetition(it) ==
    LET Repeat(nfa) == IF nfa.kind = "Ok" THEN RepetitionLoop(nfa.it, nfa.val) ELSE nfa
    IN Repeat(parse_elementary(it))

\* parse_concat from its first parse_repetition on: nfa is <<>> before the
\* first one (line 217), the loop of lines 218-223 after it
ConcatLoop(it, nfa) ==
    IF nfa # <<>> /\ Peek(it) \in {NoChar, Bar, RParen} THEN Ok(nfa, it)
    ELSE LET And(rhs) ==
                 IF rhs.kind # "Ok" THEN rhs
                 ELSE ConcatLoop(rhs.it,
                          IF nfa = <<>> THEN rhs.val ELSE <<"and", nfa, rhs.val>>)
         IN And(parse_repetition(it))

parse_concat(it) == ConcatLoop(it, <<>>)

\* parse_regex from its first parse_concat on: nfa is <<>> before the first
\* one (line 227), the loop of lines 228-237 after it, where a '|' is consumed
\* before the next parse_concat
RegexLoop(it, nfa) ==
    IF nfa # <<>> /\ Peek(it) \in {NoChar, RParen} THEN Ok(nfa, it)
    ELSE IF nfa # <<>> /\ Peek(it) # Bar THEN Err("Expecting '|'", it)
    ELSE LET Or(rhs) ==
                 IF rhs.kind # "Ok" THEN rhs
                 ELSE RegexLoop(rhs.it,
                          IF nfa = <<>> THEN rhs.val ELSE <<"or", nfa, rhs.val>>)
         IN Or(parse_concat(IF nfa = <<>> THEN it ELSE Advance(it)))

parse_regex(it) == RegexLoop(it, <<>>)

\* the Result of compile_regex: the iterator is dropped
compile_regex(re) ==
    LET Result(ret) ==
            IF ret.kind = "Ok" THEN [kind |-> "Ok", nfa |-> ret.val]
            ELSE IF ret.kind = "Err" THEN [kind |-> "Err", msg |-> ret.msg]
            ELSE [kind |-> "Panic"]
    IN Result(parse_regex(re))

RECURSIVE Build(_)
\* the NFA an expression of NFA operations evaluates to
Build(e) ==
    IF e[1] = "new" THEN NFANew
    ELSE IF e[1] = "str" THEN NFAFromStr(e[2])
    ELSE IF e[1] = "char" THEN NFAFromChar(e[2])
    ELSE IF e[1] = "range" THEN NFAFromRange(e[2], e[3])
    ELSE IF e[1] = "and" THEN bitand(Build(e[2]), Build(e[3]))
    ELSE IF e[1] = "or" THEN bitor(Build(e[2]), Build(e[3]))
    ELSE IF e[1] = "star" THEN zero_or_more(Build(e[2]))
    ELSE IF e[1] = "plus" THEN one_or_more(Build(e[2]))
    ELSE optional(Build(e[2]))

(***************************************************************************)
(* DFA (automatons.rs).  final_states maps a state to its set of branch    *)
(* ids, transitions is the partial map (StateId, u8) -> StateId.           *)
(***************************************************************************)
DFANew == [initial_state |-> 0, final_states |-> <<>>, transitions |-> <<>>]

\* the order in which a hash set of bytes is iterated: the program fixes one,
\* the model checks the ascending and the descending one
ByteOrders == {"asc", "desc"}

IterOrder(S, ord) == IF ord = "asc" THEN SetToSeq(S) ELSE Reverse(SetToSeq(S))

\* edges_out_now: the bytes with a transition out of some state of the subset
EdgesOutNow(nfa, state_now) ==
    {e[2] : e \in {x \in Range(nfa.transitions) : x[1] \in state_now /\ x[2] # Epsilon}}

\* branches: the branch ids of the NFA final states in the subset
Branches(nfa, state_now) ==
    {nfa.final_states[u] : u \in state_now \cap DOMAIN nfa.final_states}

\* mutant: the index handed out last is taken for the index of the subset
StateIndexLatest(subsets, to) == Len(subsets) - 1

\* states.get(&to): the index of a numbered subset (subsets[i] has index i - 1)
StateIndex(subsets, to) == (CHOOSE i \in DOMAIN subsets : subsets[i] = to) - 1

\* mutant: a new subset is numbered but not pushed on the stack
RECURSIVE SubsetEdgesNoPush(_, _, _, _, _)
SubsetEdgesNoPush(nfa, state_now, idx, chs, w) ==
    IF chs = <<>> THEN w
    ELSE LET ch == Head(chs)
             to == transition_set(nfa, state_now, ch)
         IN IF to \in Range(w.subsets)
            THEN SubsetEdgesNoPush(nfa, state_now, idx, Tail(chs),
                     [w EXCEPT !.transitions = (<<idx, ch>> :> StateIndex(w.subsets, to)) @@ @])
            ELSE SubsetEdgesNoPush(nfa, state_now, idx, Tail(chs),
                     [w EXCEPT !.subsets = Append(@, to),
                               !.transitions = (<<idx, ch>> :> Len(w.subsets)) @@ @])

\* the `for ch in edges_out_now` loop of one expanded subset
RECURSIVE SubsetEdges(_, _, _, _, _)
SubsetEdges(nfa, state_now, idx, chs, w) ==
    IF chs = <<>> THEN w
    ELSE LET ch == Head(chs)
             to == transition_set(nfa, state_now, ch)
         IN IF to \in Range(w.subsets)
            THEN SubsetEdges(nfa, state_now, idx, Tail(chs),
                     [w EXCEPT !.transitions = (<<idx, ch>> :> StateIndex(w.subsets, to)) @@ @])
            ELSE SubsetEdges(nfa, state_now, idx, Tail(chs),
                     [w EXCEPT !.stack = Append(@, to),
                               !.subsets = Append(@, to),
                               !.transitions = (<<idx, ch>> :> Len(w.subsets)) @@ @])

\* one pass of the `while !stack.is_empty()` loop: a subset is popped,
\* marked final if it holds a final state, and its edges are added
SubsetPass(nfa, ord, w) ==
    LET state_now == w.stack[Len(w.stack)]
        idx == StateIndex(w.subsets, state_now)
        branches == Branches(nfa, state_now)
        popped == [w EXCEPT !.stack = SubSeq(@, 1, Len(@) - 1),
                            !.final_states = IF branches # {}
                                             THEN (idx :> branches) @@ @ ELSE @]
    IN SubsetEdges(nfa, state_now, idx, IterOrder(EdgesOutNow(nfa, state_now), ord), popped)

\* the `while !stack.is_empty()` loop of subset construction
RECURSIVE SubsetLoop(_, _, _)
SubsetLoop(nfa, ord, w) ==
    IF w.stack = <<>> THEN w ELSE SubsetLoop(nfa, ord, SubsetPass(nfa, ord, w))

\* impl From<NFA> for DFA
DFAFromNFA(nfa, ord) ==
    LET initial_state == epsilon_closure(nfa, nfa.initial_state)
        w == SubsetLoop(nfa, ord, [subsets |-> <<initial_state>>,
                                   stack |-> <<initial_state>>,
                                   final_states |-> <<>>,
                                   transitions |-> <<>>])
    IN [initial_state |-> 0, final_states |-> w.final_states, transitions |-> w.transitions]

\* DFA::max_state_id
DFAMaxStateId(dfa) ==
    MaxOr0(UNION {{k[1], dfa.transitions[k]} : k \in DOMAIN dfa.transitions})

(***************************************************************************)
(* define_lexer! (lexer.rs).  A handler is modelled by its key: the        *)
(* handler stored under branch k builds the token <<k, text, span>>.       *)
(***************************************************************************)
\* mutant: the counter is incremented after the rule has been tagged
RECURSIVE AddRulesTagBefore(_, _, _)
AddRulesTagBefore(nfa, rules, next_branch) ==
    IF rules = <<>> THEN nfa
    ELSE AddRulesTagBefore(bitor(nfa, set_branch(Head(rules), next_branch)),
                           Tail(rules), next_branch + 1)

\* the `$( ... )*` repetition: rule k is tagged k and alternated into nfa
RECURSIVE AddRules(_, _, _)
AddRules(nfa, rules, next_branch) ==
    IF rules = <<>> THEN nfa
    ELSE AddRules(bitor(nfa, set_branch(Head(rules), next_branch + 1)),
                  Tail(rules), next_branch + 1)

\* first arm of the macro: no discard pattern
DefineLexer(rules, ord) ==
    [dfa |-> DFAFromNFA(AddRules(NFANew, rules, 0), ord),
     discarded_branch |-> 32,
     handlers |-> 1..Len(rules)]

\* mutant: a handler is registered under the discard branch as well
DefineLexerDiscardHandled(dis, rules, ord) ==
    [dfa |-> DFAFromNFA(AddRules(bitor(NFANew, set_branch(dis, 0)), rules, 0), ord),
     discarded_branch |-> 0,
     handlers |-> 0..Len(rules)]

\* second arm of the macro: a discard pattern first
DefineLexerDiscard(dis, rules, ord) ==
    [dfa |-> DFAFromNFA(AddRules(bitor(NFANew, set_branch(dis, 0)), rules, 0), ord),
     discarded_branch |-> 0,
     handlers |-> 1..Len(rules)]

(***************************************************************************)
(* LexerState (lexer.rs) and Location, Span (span.rs).                     *)
(***************************************************************************)
LocationNew(line, col) == [line |-> line, col |-> col]

SpanNew(from_, to_) == [from |-> from_, to |-> to_]

NewLine == 10

\* mutant: the column is not reset by a newline
LocationNextNoReset(loc, ch) ==
    IF ch = NewLine THEN [line |-> loc.line + 1, col |-> loc.col + 1]
    ELSE [line |-> loc.line, col |-> loc.col + 1]

\* the location after LexerState::next has consumed ch
LocationNext(loc, ch) ==
    IF ch = NewLine THEN [line |-> loc.line + 1, col |-> 0]
    ELSE [line |-> loc.line, col |-> loc.col + 1]

(***************************************************************************)
(* The inputs of the model: characters, rule sets, input strings.          *)
(***************************************************************************)
\* 'a', 'b', '\n', U+0127 and U+0128 (two-byte characters sharing their
\* first byte 0xC4)
InputChars == {97, 98, NewLine, 295, 296}

Inputs == SeqsUpTo(InputChars, MaxInputLen)

\* rules as the NFAs their patterns compile to
\* "a"
RuleA == NFAFromChar(97)

\* "abb"
RuleABB == bitand(bitand(NFAFromChar(97), NFAFromChar(98)), NFAFromChar(98))

\* "\n+"
RuleNewlines == one_or_more(NFAFromChar(NewLine))

\* "(a|\u{127})+"
RuleAOrHbarPlus == one_or_more(bitor(NFAFromChar(97), NFAFromChar(295)))

\* "b*"
RuleBStar == zero_or_more(NFAFromChar(98))

\* "\nb"
RuleNewlineB == bitand(NFAFromChar(NewLine), NFAFromChar(98))

\* "\n|a"
RuleNewlineOrA == bitor(NFAFromChar(NewLine), NFAFromChar(97))

\* "ab?"
RuleABOpt == bitand(NFAFromChar(97), optional(NFAFromChar(98)))

\* "\u{127}a"
RuleHbarA == bitand(NFAFromChar(295), NFAFromChar(97))

\* a rule set: the discard pattern (or none) and the rules in declaration order
RuleSets ==
    <<[discard |-> <<RuleNewlines>>, rules |-> <<RuleA, RuleA, RuleABB>>],
      [discard |-> <<>>,             rules |-> <<RuleAOrHbarPlus, RuleBStar, RuleNewlineB>>],
      [discard |-> <<RuleNewlineOrA>>, rules |-> <<RuleABOpt, RuleHbarA>>]>>

LexerOf(rs, ord) ==
    IF rs.discard = <<>> THEN DefineLexer(rs.rules, ord)
    ELSE DefineLexerDiscard(rs.discard[1], rs.rules, ord)

\* the `nfa` of the macro when it is handed to DFA::from
LexerNFA(rs) ==
    IF rs.discard = <<>> THEN AddRules(NFANew, rs.rules, 0)
    ELSE AddRules(bitor(NFANew, set_branch(rs.discard[1], 0)), rs.rules, 0)

\* compile_regex($re).unwrap(), for a pattern that compiles
CompileUnwrap(re) == Build(compile_regex(re).nfa)

\* "[ \t\n]+"
PatWhitespace == <<LBracket, 32, 9, NewLine, RBracket, Plus>>

\* "[1-9][0-9]*"
PatInt == <<LBracket, 49, Dash, 57, RBracket, LBracket, Digit0, Dash, 57, RBracket, Star>>

\* "\+"
PatPlus == <<Backslash, Plus>>

\* "[a-z]+"
PatId == <<LBracket, 97, Dash, 122, RBracket, Plus>>

\* "if"
PatIf == <<105, 102>>

\* the lexers of the scenarios: Int and Plus; Id declared before If
ScenarioRuleSets ==
    <<[discard |-> <<CompileUnwrap(PatWhitespace)>>,
       rules |-> <<CompileUnwrap(PatInt), CompileUnwrap(PatPlus)>>],
      [discard |-> <<CompileUnwrap(PatWhitespace)>>,
       rules |-> <<CompileUnwrap(PatId), CompileUnwrap(PatIf)>>]>>

\* "12 + 345"
InputIntPlusInt == <<49, 50, 32, Plus, 32, 51, 52, 53>>

\* "if ifx"
InputIfIfx == <<105, 102, 32, 105, 102, 120>>

\* '1', '0', ' ', '+', 'i', 'f', 'x'
ScenarioChars == {49, Digit0, 32, Plus, 105, 102, 120}

ScenarioInputs == SeqsUpTo(ScenarioChars, MaxScenarioLen) \cup {InputIntPlusInt, InputIfIfx}

(***************************************************************************)
(* Lexer::next_token (lexer.rs) as a state machine.  A call runs from      *)
(* pc = "idle" to the next pc = "idle"; pc = "entry" is the entry of the   *)
(* recursive call made for a discarded match.                              *)
(***************************************************************************)
VARIABLES
    lexer,      \* the Lexer: dfa, discarded_branch, handlers
    chars,      \* LexerState.chars: the characters not yet consumed
    location,   \* LexerState.location
    pc,         \* "idle", "entry" or "loop"
    dfa_state, from, to, accepted, ch_accepted, token,   \* locals of next_token
    result,     \* what the last call returned
    \* history variables
    ruleset,    \* the rule set the lexer was built from
    input,      \* the whole input of the scan state
    start,      \* number of characters consumed when the attempt began
    outcome,    \* how the last attempt ended: "none", "token", "discard", "nomatch", "eof"
    matches,    \* every match so far, emitted or discarded
    invoked,    \* every handler invocation so far
    nomatch,    \* a call has failed with the no-match error
    entry       \* chars, location and number of invocations when the caller's call began

lvars == <<lexer, chars, location, pc, dfa_state, from, to, accepted, ch_accepted,
           token, result, ruleset, input, start, outcome, matches, invoked, nomatch, entry>>

\* DFA::minimize (automatons.rs) as a state machine
VARIABLES
    m_pc,           \* "off", "start", "loop" or "done"
    m_self,         \* the DFA being minimized
    partitions,     \* IndexSet<StateSet>, in index order
    distinguishers, \* IndexSet<StateSet>, in index order
    m_a,            \* the distinguisher popped last
    m_c,            \* the keys (bytes) of c not yet iterated
    m_out           \* the DFA returned

mvars == <<m_pc, m_self, partitions, distinguishers, m_a, m_c, m_out>>

\* the NFA algebra (automatons.rs) as a state machine: an NFA is built by
\* applying one combinator after the other
VARIABLES
    alg_pc,         \* "off" or "on"
    alg_expr,       \* the expression the NFA has been built by
    alg_nfa         \* the NFA built so far

avars == <<alg_pc, alg_expr, alg_nfa>>

\* compile_regex (regex.rs) as a state machine
VARIABLES
    re_pc,          \* "off", "ready", "done" or "panicked"
    regex,          \* the pattern, a sequence of characters
    re_out          \* what compile_regex returned

rvars == <<re_pc, regex, re_out>>

\* subset construction, impl From<NFA> for DFA (automatons.rs), as a state
\* machine: one step per pass of the `while !stack.is_empty()` loop
VARIABLES
    s_pc,           \* "off", "idle", "loop" or "done"
    s_nfa,          \* the NFA being converted
    s_ord,          \* the order in which edges_out_now is iterated
    s_work,         \* states (as the sequence subsets), stack and ret
    s_pushed,       \* history: the subsets pushed on the stack, in order
    s_expanded,     \* history: the subsets popped and expanded, in order
    s_out           \* the DFA returned

svars == <<s_pc, s_nfa, s_ord, s_work, s_pushed, s_expanded, s_out>>

vars == <<lvars, mvars, avars, rvars, svars>>

besides_lexer == <<mvars, avars, rvars, svars>>

besides_minimize == <<lvars, avars, rvars, svars>>

\* no NFA is being converted
SubsetOff ==
    /\ s_pc = "off"
    /\ s_nfa = NFANew
    /\ s_ord = "asc"
    /\ s_work = [subsets |-> <<>>, stack |-> <<>>, final_states |-> <<>>, transitions |-> <<>>]
    /\ s_pushed = <<>>
    /\ s_expanded = <<>>
    /\ s_out = DFANew

\* no NFA is under construction
AlgOff ==
    /\ alg_pc = "off"
    /\ alg_expr = <<>>
    /\ alg_nfa = NFANew

\* no pattern is being compiled
RegexOff ==
    /\ re_pc = "off"
    /\ regex = <<>>
    /\ re_out = [kind |-> "none"]

\* the minimizer is not part of a lexer's life
MinOff ==
    /\ m_pc = "off"
    /\ m_self = DFANew
    /\ partitions = <<>>
    /\ distinguishers = <<>>
    /\ m_a = {}
    /\ m_c = {}
    /\ m_out = DFANew

locals == <<dfa_state, from, to, accepted, ch_accepted, token>>

NoResult == [kind |-> "none"]

ErrEndOfFile == [kind |-> "Err", msg |-> "End of file"]

ErrNoMatch == [kind |-> "Err", msg |-> "Empty input or input cannot be accepted by DFA"]

\* the value a handler builds from (&token, Span::new(from, to))
Handler(branch, text, span) == [kind |-> "Ok", branch |-> branch, text |-> text, span |-> span]

\* LexerState::eof
eof == chars = <<>>

NoState == -1

\* the `for &b in ch.encode_utf8(..)` loop: the state after all bytes, or
\* NoState once a byte has no transition
RECURSIVE WalkBytes(_, _, _)
WalkBytes(dfa, tmp_state, bytes) ==
    IF bytes = <<>> THEN tmp_state
    ELSE IF <<tmp_state, Head(bytes)>> \in DOMAIN dfa.transitions
         THEN WalkBytes(dfa, dfa.transitions[<<tmp_state, Head(bytes)>>], Tail(bytes))
         ELSE NoState

\* mutant: the maximum branch id is selected
MaxBranch(dfa, s) == MaxOr0(dfa.final_states[s])

\* self.dfa.final_states[&dfa_state].iter().min()
MinBranch(dfa, s) == MinOf(dfa.final_states[s])

Init ==
    /\ ruleset \in DOMAIN RuleSets
    /\ \E ord \in ByteOrders : lexer = LexerOf(RuleSets[ruleset], ord)
    /\ input \in Inputs
    /\ chars = input
    /\ location = LocationNew(1, 0)
    /\ pc = "idle"
    /\ dfa_state = 0
    /\ from = LocationNew(1, 0)
    /\ to = LocationNew(1, 0)
    /\ accepted = FALSE
    /\ ch_accepted = TRUE
    /\ token = <<>>
    /\ result = NoResult
    /\ start = 0
    /\ outcome = "none"
    /\ matches = <<>>
    /\ invoked = <<>>
    /\ nomatch = FALSE
    /\ entry = [chars |-> input, location |-> LocationNew(1, 0), ninvoked |-> 0]
    /\ MinOff
    /\ AlgOff
    /\ RegexOff
    /\ SubsetOff

\* what a call by the caller (not the recursive one) records on entry
CallerEntry ==
    entry' = IF pc = "idle"
             THEN [chars |-> chars, location |-> location, ninvoked |-> Len(invoked)]
             ELSE entry

\* mutant: without the entry check the empty walk ends in the no-match error
NextTokenEofNoMatch ==
    /\ pc \in {"idle", "entry"}
    /\ eof
    /\ result' = ErrNoMatch
    /\ pc' = "idle"
    /\ outcome' = "nomatch"
    /\ nomatch' = TRUE
    /\ CallerEntry
    /\ UNCHANGED <<besides_lexer, lexer, chars, location, locals, ruleset, input, start, matches, invoked>>

\* lines 77-79: the iterator is exhausted on entry
NextTokenEof ==
    /\ pc \in {"idle", "entry"}
    /\ eof
    /\ result' = ErrEndOfFile
    /\ pc' = "idle"
    /\ outcome' = "eof"
    /\ CallerEntry
    /\ UNCHANGED <<besides_lexer, lexer, chars, location, locals, ruleset, input, start, matches,
                   invoked, nomatch>>

\* mutant: the token buffer is not cleared for a new attempt
NextTokenStartKeepToken ==
    /\ pc \in {"idle", "entry"}
    /\ ~eof
    /\ dfa_state' = lexer.dfa.initial_state
    /\ from' = location
    /\ to' = location
    /\ accepted' = FALSE
    /\ ch_accepted' = TRUE
    /\ token' = token
    /\ pc' = "loop"
    /\ result' = NoResult
    /\ start' = Len(input) - Len(chars)
    /\ outcome' = "none"
    /\ CallerEntry
    /\ UNCHANGED <<besides_lexer, lexer, chars, location, ruleset, input, matches, invoked, nomatch>>

\* mutant: an accepting initial state counts as a match before any character
NextTokenStartAcceptEmpty ==
    /\ pc \in {"idle", "entry"}
    /\ ~eof
    /\ dfa_state' = lexer.dfa.initial_state
    /\ from' = location
    /\ to' = location
    /\ accepted' = (lexer.dfa.initial_state \in DOMAIN lexer.dfa.final_states)
    /\ ch_accepted' = TRUE
    /\ token' = <<>>
    /\ pc' = "loop"
    /\ result' = NoResult
    /\ start' = Len(input) - Len(chars)
    /\ outcome' = "none"
    /\ CallerEntry
    /\ UNCHANGED <<besides_lexer, lexer, chars, location, ruleset, input, matches, invoked, nomatch>>

\* lines 80-90: the locals of a token attempt
NextTokenStart ==
    /\ pc \in {"idle", "entry"}
    /\ ~eof
    /\ dfa_state' = lexer.dfa.initial_state
    /\ from' = location
    /\ to' = location
    /\ accepted' = FALSE
    /\ ch_accepted' = TRUE
    /\ token' = <<>>
    /\ pc' = "loop"
    /\ result' = NoResult
    /\ start' = Len(input) - Len(chars)
    /\ outcome' = "none"
    /\ CallerEntry
    /\ UNCHANGED <<besides_lexer, lexer, chars, location, ruleset, input, matches, invoked, nomatch>>

\* mutant: the walk stops at the first accepting state
LoopCondShortest == chars # <<>> /\ ch_accepted /\ ~accepted

\* line 92: the condition of the while loop
LoopCond == ~eof /\ ch_accepted

\* mutant: the span's end is taken after the character has been consumed
LoopAcceptToAfter ==
    /\ pc = "loop"
    /\ LoopCond
    /\ LET ch == Head(chars)
           tmp_state == WalkBytes(lexer.dfa, dfa_state, encode_utf8(ch))
       IN /\ tmp_state # NoState
          /\ dfa_state' = tmp_state
          /\ accepted' = (tmp_state \in DOMAIN lexer.dfa.final_states)
          /\ to' = LocationNext(location, ch)
          /\ token' = Append(token, ch)
          /\ chars' = Tail(chars)
          /\ location' = LocationNext(location, ch)
    /\ UNCHANGED <<besides_lexer, lexer, pc, from, ch_accepted, result, ruleset, input, start, outcome,
                   matches, invoked, nomatch, entry>>

\* lines 92-117, a character all of whose bytes have a transition
LoopAccept ==
    /\ pc = "loop"
    /\ LoopCond
    /\ LET ch == Head(chars)
           tmp_state == WalkBytes(lexer.dfa, dfa_state, encode_utf8(ch))
       IN /\ tmp_state # NoState
          /\ dfa_state' = tmp_state
          /\ accepted' = (tmp_state \in DOMAIN lexer.dfa.final_states)
          /\ to' = location
          /\ token' = Append(token, ch)
          /\ chars' = Tail(chars)
          /\ location' = LocationNext(location, ch)
    /\ UNCHANGED <<besides_lexer, lexer, pc, from, ch_accepted, result, ruleset, input, start, outcome,
                   matches, invoked, nomatch, entry>>

\* mutant: the rejected character is consumed all the same
LoopRejectConsuming ==
    /\ pc = "loop"
    /\ LoopCond
    /\ WalkBytes(lexer.dfa, dfa_state, encode_utf8(Head(chars))) = NoState
    /\ ch_accepted' = FALSE
    /\ chars' = Tail(chars)
    /\ location' = LocationNext(location, Head(chars))
    /\ UNCHANGED <<besides_lexer, lexer, pc, dfa_state, from, to, accepted, token,
                   result, ruleset, input, start, outcome, matches, invoked, nomatch, entry>>

RECURSIVE WalkedSoFar(_, _, _)
\* the state the byte walk has reached when it stops
WalkedSoFar(dfa, s, bytes) ==
    IF bytes = <<>> \/ <<s, Head(bytes)>> \notin DOMAIN dfa.transitions THEN s
    ELSE WalkedSoFar(dfa, dfa.transitions[<<s, Head(bytes)>>], Tail(bytes))

\* mutant: the bytes are walked in dfa_state itself, without the copy tmp_state
LoopRejectInPlace ==
    /\ pc = "loop"
    /\ LoopCond
    /\ WalkBytes(lexer.dfa, dfa_state, encode_utf8(Head(chars))) = NoState
    /\ ch_accepted' = FALSE
    /\ dfa_state' = WalkedSoFar(lexer.dfa, dfa_state, encode_utf8(Head(chars)))
    /\ UNCHANGED <<besides_lexer, lexer, chars, location, pc, from, to, accepted, token,
                   result, ruleset, input, start, outcome, matches, invoked, nomatch, entry>>

\* lines 92-107, a character one of whose bytes has no transition
LoopReject ==
    /\ pc = "loop"
    /\ LoopCond
    /\ WalkBytes(lexer.dfa, dfa_state, encode_utf8(Head(chars))) = NoState
    /\ ch_accepted' = FALSE
    /\ UNCHANGED <<besides_lexer, lexer, chars, location, pc, dfa_state, from, to, accepted, token,
                   result, ruleset, input, start, outcome, matches, invoked, nomatch, entry>>

\* mutant: the match is handed on as soon as a state accepts
LoopDoneOnAccept == pc = "loop" /\ (~LoopCond \/ accepted)

\* the loop has ended
LoopDone == pc = "loop" /\ ~LoopCond

\* lines 118-119
ReturnNoMatch ==
    /\ LoopDone
    /\ ~accepted
    /\ result' = ErrNoMatch
    /\ pc' = "idle"
    /\ outcome' = "nomatch"
    /\ nomatch' = TRUE
    /\ UNCHANGED <<besides_lexer, lexer, chars, location, locals, ruleset, input, start, matches,
                   invoked, entry>>

\* lines 121-123: the handler of the minimum branch builds the token
ReturnToken ==
    /\ LoopDone
    /\ accepted
    /\ LET branch == MinBranch(lexer.dfa, dfa_state)
       IN /\ branch \in lexer.handlers
          /\ result' = Handler(branch, token, SpanNew(from, to))
          /\ invoked' = Append(invoked, [branch |-> branch, text |-> token,
                                         span |-> SpanNew(from, to), start |-> start])
          /\ matches' = Append(matches, [branch |-> branch, text |-> token,
                                         start |-> start, discarded |-> FALSE])
    /\ pc' = "idle"
    /\ outcome' = "token"
    /\ UNCHANGED <<besides_lexer, lexer, chars, location, locals, ruleset, input, start, nomatch, entry>>

\* lines 124-125: no handler for the minimum branch, the call recurses
Discard ==
    /\ LoopDone
    /\ accepted
    /\ LET branch == MinBranch(lexer.dfa, dfa_state)
       IN /\ branch \notin lexer.handlers
          /\ matches' = Append(matches, [branch |-> branch, text |-> token,
                                         start |-> start, discarded |-> TRUE])
    /\ pc' = "entry"
    /\ outcome' = "discard"
    /\ UNCHANGED <<besides_lexer, lexer, chars, location, locals, result, ruleset, input, start,
                   invoked, nomatch, entry>>

Next ==
    \/ NextTokenEof
    \/ NextTokenStart
    \/ LoopAccept
    \/ LoopReject
    \/ ReturnNoMatch
    \/ ReturnToken
    \/ Discard

Spec == Init /\ [][Next]_vars

\* a scan by a lexer whose rules are compiled from patterns; the rule sets
\* are numbered after those of RuleSets
ScenarioInit ==
    /\ \E i \in DOMAIN ScenarioRuleSets, ord \in ByteOrders :
          /\ ruleset = Len(RuleSets) + i
          /\ lexer = LexerOf(ScenarioRuleSets[i], ord)
    /\ input \in ScenarioInputs
    /\ chars = input
    /\ location = LocationNew(1, 0)
    /\ pc = "idle"
    /\ dfa_state = 0
    /\ from = LocationNew(1, 0)
    /\ to = LocationNew(1, 0)
    /\ accepted = FALSE
    /\ ch_accepted = TRUE
    /\ token = <<>>
    /\ result = NoResult
    /\ start = 0
    /\ outcome = "none"
    /\ matches = <<>>
    /\ invoked = <<>>
    /\ nomatch = FALSE
    /\ entry = [chars |-> input, location |-> LocationNew(1, 0), ninvoked |-> 0]
    /\ MinOff
    /\ AlgOff
    /\ RegexOff
    /\ SubsetOff

SpecScenario == ScenarioInit /\ [][Next]_vars

(***************************************************************************)
(* The scan loop of main (main.rs): next_token is called as long as the    *)
(* state is not at the end of the input, and the loop is left at the first *)
(* error.  The rule sets are those above, one whose discard pattern and    *)
(* first rule accept the empty string, and one whose rule begins with two  *)
(* matches of the discard pattern.                                         *)
(***************************************************************************)
\* "\n*"
RuleNewlineStar == zero_or_more(NFAFromChar(NewLine))

\* "aab"
RuleAAB == bitand(bitand(NFAFromChar(97), NFAFromChar(97)), NFAFromChar(98))

ScanRuleSets ==
    RuleSets \o <<[discard |-> <<RuleNewlineStar>>, rules |-> <<RuleBStar, RuleA>>],
                  [discard |-> <<RuleA>>,           rules |-> <<RuleAAB>>]>>

ScanInit ==
    /\ ruleset \in DOMAIN ScanRuleSets
    /\ \E ord \in ByteOrders : lexer = LexerOf(ScanRuleSets[ruleset], ord)
    /\ input \in Inputs
    /\ chars = input
    /\ location = LocationNew(1, 0)
    /\ pc = "idle"
    /\ dfa_state = 0
    /\ from = LocationNew(1, 0)
    /\ to = LocationNew(1, 0)
    /\ accepted = FALSE
    /\ ch_accepted = TRUE
    /\ token = <<>>
    /\ result = NoResult
    /\ start = 0
    /\ outcome = "none"
    /\ matches = <<>>
    /\ invoked = <<>>
    /\ nomatch = FALSE
    /\ entry = [chars |-> input, location |-> LocationNew(1, 0), ninvoked |-> 0]
    /\ MinOff
    /\ AlgOff
    /\ RegexOff
    /\ SubsetOff

\* `while !state.eof()`, and no `break` yet
MainLoopCalls == pc = "idle" /\ ~eof /\ result.kind # "Err"

ScanNext ==
    \/ MainLoopCalls /\ NextTokenStart
    \/ pc = "entry" /\ NextTokenStart
    \/ pc = "entry" /\ NextTokenEof
    \/ LoopAccept
    \/ LoopReject
    \/ ReturnNoMatch
    \/ ReturnToken
    \/ Discard

SpecScan == ScanInit /\ [][ScanNext]_vars

\* the loop and the calls it makes keep running
SpecScanFair == SpecScan /\ WF_vars(ScanNext)

(***************************************************************************)
(* DFA::minimize (automatons.rs): one action per pass of the outer loop    *)
(* and per key of c; the keys of c are iterated in any order.              *)
(***************************************************************************)
\* the lexer is not part of a minimization
LexOff ==
    /\ lexer = [dfa |-> DFANew, discarded_branch |-> 0, handlers |-> {}]
    /\ chars = <<>>
    /\ location = LocationNew(1, 0)
    /\ pc = "off"
    /\ dfa_state = 0
    /\ from = LocationNew(1, 0)
    /\ to = LocationNew(1, 0)
    /\ accepted = FALSE
    /\ ch_accepted = TRUE
    /\ token = <<>>
    /\ result = NoResult
    /\ ruleset = 0
    /\ input = <<>>
    /\ start = 0
    /\ outcome = "none"
    /\ matches = <<>>
    /\ invoked = <<>>
    /\ nomatch = FALSE
    /\ entry = [chars |-> <<>>, location |-> LocationNew(1, 0), ninvoked |-> 0]

\* the DFAs handed to minimize: those of the rule sets
MinInputs == {LexerOf(RuleSets[i], ord).dfa : i \in DOMAIN RuleSets, ord \in ByteOrders}

MinInit ==
    /\ m_pc = "start"
    /\ m_self \in MinInputs
    /\ partitions = <<>>
    /\ distinguishers = <<>>
    /\ m_a = {}
    /\ m_c = {}
    /\ m_out = DFANew
    /\ LexOff
    /\ AlgOff
    /\ RegexOff
    /\ SubsetOff

\* IndexSet::insert
IndexSetInsert(set, v) == IF v \in Range(set) THEN set ELSE Append(set, v)

\* IndexSet::remove (swap_remove: the last element takes the freed index)
IndexSetRemove(set, v) ==
    IF v \notin Range(set) THEN set
    ELSE LET i == CHOOSE j \in DOMAIN set : set[j] = v
         IN [j \in 1..(Len(set) - 1) |-> IF j = i THEN set[Len(set)] ELSE set[j]]

\* lines 376-383
AllStates(dfa) == 0..DFAMaxStateId(dfa)

FinalStateSet(dfa) == AllStates(dfa) \cap DOMAIN dfa.final_states

\* lines 376-387: the initial partition and worklist
MinStart ==
    /\ m_pc = "start"
    /\ LET all_states == AllStates(m_self)
           final_states == FinalStateSet(m_self)
       IN /\ partitions' = IndexSetInsert(IndexSetInsert(<<>>, final_states),
                                          all_states \ final_states)
          /\ distinguishers' = IndexSetInsert(IndexSetInsert(<<>>, all_states \ final_states),
                                              final_states)
    /\ m_pc' = "loop"
    /\ UNCHANGED <<m_self, m_a, m_c, m_out, besides_minimize>>

\* the keys of c: the bytes on which some state moves into a
CKeys(dfa, a) == {k[2] : k \in {j \in DOMAIN dfa.transitions : dfa.transitions[j] \in a}}

\* c[b]: the states that move into a on byte b
CValues(dfa, a, b) ==
    {k[1] : k \in {j \in DOMAIN dfa.transitions : j[2] = b /\ dfa.transitions[j] \in a}}

\* lines 389-395: a distinguisher is popped and c is built
MinPop ==
    /\ m_pc = "loop"
    /\ m_c = {}
    /\ distinguishers # <<>>
    /\ m_a' = distinguishers[Len(distinguishers)]
    /\ distinguishers' = SubSeq(distinguishers, 1, Len(distinguishers) - 1)
    /\ m_c' = CKeys(m_self, distinguishers[Len(distinguishers)])
    /\ UNCHANGED <<m_pc, m_self, partitions, m_out, besides_minimize>>

\* mutant: no block is split
SplitLoopKeep(parts, dist, x, new_partitions) ==
    [partitions |-> parts, distinguishers |-> dist]

\* mutant: a block that is not in the worklist is split without either half
\* being inserted into the worklist
RECURSIVE SplitLoopReplaceOnly(_, _, _, _)
SplitLoopReplaceOnly(parts, dist, x, new_partitions) ==
    IF parts = <<>> THEN [partitions |-> new_partitions, distinguishers |-> dist]
    ELSE LET y == parts[Len(parts)]
             rest == SubSeq(parts, 1, Len(parts) - 1)
             intersection == y \cap x
             difference == y \ x
         IN IF intersection # {} /\ difference # {}
            THEN SplitLoopReplaceOnly(rest,
                     IF y \in Range(dist)
                     THEN IndexSetInsert(IndexSetInsert(IndexSetRemove(dist, y),
                                                        intersection), difference)
                     ELSE dist,
                     x,
                     IndexSetInsert(IndexSetInsert(new_partitions, intersection), difference))
            ELSE SplitLoopReplaceOnly(rest, dist, x, IndexSetInsert(new_partitions, y))

\* lines 399-421: every block is popped and split by x
RECURSIVE SplitLoop(_, _, _, _)
SplitLoop(parts, dist, x, new_partitions) ==
    IF parts = <<>> THEN [partitions |-> new_partitions, distinguishers |-> dist]
    ELSE LET y == parts[Len(parts)]
             rest == SubSeq(parts, 1, Len(parts) - 1)
             intersection == y \cap x
             difference == y \ x
         IN IF intersection # {} /\ difference # {}
            THEN SplitLoop(rest,
                     IF y \in Range(dist)
                     THEN IndexSetInsert(IndexSetInsert(IndexSetRemove(dist, y),
                                                        intersection), difference)
                     ELSE IndexSetInsert(dist,
                              IF Cardinality(intersection) <= Cardinality(difference)
                              THEN intersection ELSE difference),
                     x,
                     IndexSetInsert(IndexSetInsert(new_partitions, intersection), difference))
            ELSE SplitLoop(rest, dist, x, IndexSetInsert(new_partitions, y))

\* lines 396-423: one iteration of `for (_, x) in c.iter_all()`
MinSplit ==
    /\ m_pc = "loop"
    /\ \E b \in m_c :
          LET after == SplitLoop(partitions, distinguishers, CValues(m_self, m_a, b), <<>>)
          IN /\ partitions' = after.partitions
             /\ distinguishers' = after.distinguishers
             /\ m_c' = m_c \ {b}
    /\ UNCHANGED <<m_pc, m_self, m_a, m_out, besides_minimize>>

\* labeled: the id of a block is its index in partitions
Labeled(parts, p) == (CHOOSE i \in DOMAIN parts : parts[i] = p) - 1

\* map: the id of the block a state lies in
BlockMap(parts, x) == Labeled(parts, CHOOSE p \in Range(parts) : x \in p)

\* lines 435-449: the union of the branch sets of a block's states
BlockBranches(dfa, p) == UNION {dfa.final_states[x] : x \in p \cap DOMAIN dfa.final_states}

\* lines 450-454: the targets collected under one key of the new transition map
MappedTargets(dfa, parts, key) ==
    {BlockMap(parts, dfa.transitions[k]) :
        k \in {j \in DOMAIN dfa.transitions : <<BlockMap(parts, j[1]), j[2]>> = key}}

\* lines 425-455: the minimized DFA; where several targets are collected
\* under one key the map keeps any one of them, here the least or the greatest
MinimizedDFA(dfa, parts, keep) ==
    LET accepting == {p \in Range(parts) : BlockBranches(dfa, p) # {}}
        keys == {<<BlockMap(parts, j[1]), j[2]>> : j \in DOMAIN dfa.transitions}
    IN [initial_state |-> BlockMap(parts, dfa.initial_state),
        final_states  |-> [id \in {Labeled(parts, p) : p \in accepting} |->
                              BlockBranches(dfa, parts[id + 1])],
        transitions   |-> [key \in keys |->
                              IF keep = "least" THEN MinOf(MappedTargets(dfa, parts, key))
                              ELSE MaxOr0(MappedTargets(dfa, parts, key))]]

\* lines 425-455
MinFinish ==
    /\ m_pc = "loop"
    /\ m_c = {}
    /\ distinguishers = <<>>
    /\ \E keep \in {"least", "greatest"} : m_out' = MinimizedDFA(m_self, partitions, keep)
    /\ m_pc' = "done"
    /\ UNCHANGED <<m_self, partitions, distinguishers, m_a, m_c, besides_minimize>>

MinNext ==
    \/ MinStart
    \/ MinPop
    \/ MinSplit
    \/ MinFinish

SpecMin == MinInit /\ [][MinNext]_vars

(***************************************************************************)
(* compile_regex (regex.rs) applied to a pattern.                          *)
(***************************************************************************)
\* 'a', the NUL character and the characters of groups, classes, ranges,
\* alternation, repetition and escapes
RegexChars == {97, 0, LParen, RParen, LBracket, RBracket, Caret, Dash, Bar, Star, Backslash}

\* "[+\-]"
PatSignClass == <<LBracket, Plus, Backslash, Dash, RBracket>>

\* "[eE][+\-]?[0-9]+"
PatExponent == <<LBracket, 101, 69, RBracket>> \o PatSignClass
               \o <<Question, LBracket, Digit0, Dash, 57, RBracket, Plus>>

\* "[1-9][0-9]*(\.[0-9]+)?([eE][+\-]?[0-9]+)?", the number rule of main.rs
PatNumber == <<LBracket, 49, Dash, 57, RBracket, LBracket, Digit0, Dash, 57, RBracket, Star,
               LParen, Backslash, Dot, LBracket, Digit0, Dash, 57, RBracket, Plus, RParen,
               Question, LParen>> \o PatExponent \o <<RParen, Question>>

\* "[eE](\+|-)?[1-9][0-9]*", from the example of the module's documentation
PatDocExponent == <<LBracket, 101, 69, RBracket, LParen, Backslash, Plus, Bar, Dash, RParen,
                    Question, LBracket, 49, Dash, 57, RBracket,
                    LBracket, Digit0, Dash, 57, RBracket, Star>>

Patterns == SeqsUpTo(RegexChars, MaxRegexLen)
            \cup {PatSignClass, PatExponent, PatNumber, PatDocExponent}

RegexInit ==
    /\ re_pc = "ready"
    /\ regex \in Patterns
    /\ re_out = [kind |-> "none"]
    /\ LexOff
    /\ MinOff
    /\ AlgOff
    /\ SubsetOff

\* compile_regex returns
CompileReturn ==
    /\ re_pc = "ready"
    /\ compile_regex(regex).kind \in {"Ok", "Err"}
    /\ re_out' = compile_regex(regex)
    /\ re_pc' = "done"
    /\ UNCHANGED <<regex, lvars, mvars, avars, svars>>

\* compile_regex panics
CompilePanic ==
    /\ re_pc = "ready"
    /\ compile_regex(regex).kind = "Panic"
    /\ re_out' = compile_regex(regex)
    /\ re_pc' = "panicked"
    /\ UNCHANGED <<regex, lvars, mvars, avars, svars>>

RegexNext ==
    \/ CompileReturn
    \/ CompilePanic

SpecRegex == RegexInit /\ [][RegexNext]_vars

(***************************************************************************)
(* compile_regex applied to one character class: '[', an optional '^',     *)
(* items that are a character or a range l-r with l <= r, and ']'.         *)
(***************************************************************************)
\* the scalars the items are written with: NUL, 'a', 'b', 'c', the two-byte
\* U+0127, the scalars on either side of the surrogates and U+FFFF
ClassScalars == {0, 97, 98, 99, 295, 55295, 57344, 65535}

\* an item: <<l, r, TRUE>> is written l-r and <<l, l, FALSE>> is written l
ClassItems ==
    {i \in ClassScalars \X ClassScalars \X {TRUE} : i[1] <= i[2]}
        \cup {<<l, l, FALSE>> : l \in ClassScalars}

Classes == [negate : BOOLEAN, items : SeqsUpTo(ClassItems, MaxClassItems)]

RECURSIVE ItemsText(_)
ItemsText(items) ==
    IF items = <<>> THEN <<>>
    ELSE (IF Head(items)[3] THEN <<Head(items)[1], Dash, Head(items)[2]>> ELSE <<Head(items)[1]>>)
         \o ItemsText(Tail(items))

\* the pattern a class is written as
ClassText(c) ==
    <<LBracket>> \o (IF c.negate THEN <<Caret>> ELSE <<>>) \o ItemsText(c.items) \o <<RBracket>>

ClassPatterns == {ClassText(c) : c \in Classes}

ClassInit ==
    /\ re_pc = "ready"
    /\ regex \in ClassPatterns
    /\ re_out = [kind |-> "none"]
    /\ LexOff
    /\ MinOff
    /\ AlgOff
    /\ SubsetOff

SpecClass == ClassInit /\ [][RegexNext]_vars

(***************************************************************************)
(* The NFA algebra (automatons.rs): an NFA is one of the constructors'     *)
(* values with combinators applied to it, one per step.                    *)
(***************************************************************************)
\* NFA::new(), NFA::from(""), NFA::from('a'), NFA::from('b')
AlgAtoms == {<<"new">>, <<"str", <<>>>>, <<"char", 97>>, <<"char", 98>>}

\* the other operand of a binary combinator: NFA::from('a'), NFA::from('b')
\* and NFA::from("").zero_or_more().optional()
AlgOperands == {<<"char", 97>>, <<"char", 98>>, <<"opt", <<"star", <<"str", <<>>>>>>>>}

RECURSIVE AlgDepth(_)
\* the number of combinators applied in an expression
AlgDepth(e) ==
    IF e[1] \in {"new", "str", "char", "range"} THEN 0
    ELSE IF e[1] \in {"and", "or"} THEN 1 + AlgDepth(e[2]) + AlgDepth(e[3])
    ELSE 1 + AlgDepth(e[2])

AlgInit ==
    /\ alg_pc = "on"
    /\ alg_expr \in AlgAtoms
    /\ alg_nfa = Build(alg_expr)
    /\ LexOff
    /\ MinOff
    /\ RegexOff
    /\ SubsetOff

AlgCanApply == alg_pc = "on" /\ AlgDepth(alg_expr) < MaxAlgDepth

AlgZeroOrMore ==
    /\ AlgCanApply
    /\ alg_nfa' = zero_or_more(alg_nfa)
    /\ alg_expr' = <<"star", alg_expr>>
    /\ UNCHANGED <<alg_pc, lvars, mvars, rvars, svars>>

AlgOneOrMore ==
    /\ AlgCanApply
    /\ alg_nfa' = one_or_more(alg_nfa)
    /\ alg_expr' = <<"plus", alg_expr>>
    /\ UNCHANGED <<alg_pc, lvars, mvars, rvars, svars>>

AlgOptional ==
    /\ AlgCanApply
    /\ alg_nfa' = optional(alg_nfa)
    /\ alg_expr' = <<"opt", alg_expr>>
    /\ UNCHANGED <<alg_pc, lvars, mvars, rvars, svars>>

\* self & rhs with the NFA as the left operand
AlgConcatRight ==
    /\ AlgCanApply
    /\ \E rhs \in AlgOperands :
          /\ alg_nfa' = bitand(alg_nfa, Build(rhs))
          /\ alg_expr' = <<"and", alg_expr, rhs>>
    /\ UNCHANGED <<alg_pc, lvars, mvars, rvars, svars>>

\* self & rhs with the NFA as the right operand
AlgConcatLeft ==
    /\ AlgCanApply
    /\ \E lhs \in AlgOperands :
          /\ alg_nfa' = bitand(Build(lhs), alg_nfa)
          /\ alg_expr' = <<"and", lhs, alg_expr>>
    /\ UNCHANGED <<alg_pc, lvars, mvars, rvars, svars>>

\* self | rhs with the NFA as the left operand
AlgOrRight ==
    /\ AlgCanApply
    /\ \E rhs \in AlgOperands :
          /\ alg_nfa' = bitor(alg_nfa, Build(rhs))
          /\ alg_expr' = <<"or", alg_expr, rhs>>
    /\ UNCHANGED <<alg_pc, lvars, mvars, rvars, svars>>

\* self | rhs with the NFA as the right operand
AlgOrLeft ==
    /\ AlgCanApply
    /\ \E lhs \in AlgOperands :
          /\ alg_nfa' = bitor(Build(lhs), alg_nfa)
          /\ alg_expr' = <<"or", lhs, alg_expr>>
    /\ UNCHANGED <<alg_pc, lvars, mvars, rvars, svars>>

AlgNext ==
    \/ AlgZeroOrMore
    \/ AlgOneOrMore
    \/ AlgOptional
    \/ AlgConcatRight
    \/ AlgConcatLeft
    \/ AlgOrRight
    \/ AlgOrLeft

SpecAlg == AlgInit /\ [][AlgNext]_vars

(***************************************************************************)
(* Subset construction, impl From<NFA> for DFA (automatons.rs): one action *)
(* per pass of the `while !stack.is_empty()` loop.                         *)
(***************************************************************************)
RECURSIVE AlgTerms(_)
\* the expressions with at most n combinators applied on top of an atom
AlgTerms(n) ==
    IF n = 0 THEN AlgAtoms
    ELSE LET T == AlgTerms(n - 1)
         IN T \cup {<<op, e>> : op \in {"star", "plus", "opt"}, e \in T}
              \cup {<<op, e, o>> : op \in {"and", "or"}, e \in T, o \in AlgOperands}
              \cup {<<op, o, e>> : op \in {"and", "or"}, e \in T, o \in AlgOperands}

\* the NFAs handed to DFA::from: those of the rule sets and those of the
\* algebra, the latter also alternated with a second NFA of another branch
SubsetInputs ==
    {LexerNFA(RuleSets[i]) : i \in DOMAIN RuleSets}
        \cup {Build(e) : e \in AlgTerms(MaxAlgDepth)}
        \cup {bitor(set_branch(Build(e), 1), set_branch(Build(o), 2)) :
                 e \in AlgTerms(MaxAlgDepth - 1), o \in AlgOperands}

\* DFA::from has not been called yet
SubsetInit ==
    /\ s_pc = "idle"
    /\ s_nfa = NFANew
    /\ s_ord = "asc"
    /\ s_work = [subsets |-> <<>>, stack |-> <<>>, final_states |-> <<>>, transitions |-> <<>>]
    /\ s_pushed = <<>>
    /\ s_expanded = <<>>
    /\ s_out = DFANew
    /\ LexOff
    /\ MinOff
    /\ AlgOff
    /\ RegexOff

\* lines 294-309: DFA::from is called with an NFA; the initial subset is
\* numbered 0 and pushed
SubsetStart ==
    /\ s_pc = "idle"
    /\ \E nfa \in SubsetInputs, ord \in ByteOrders :
          /\ s_nfa' = nfa
          /\ s_ord' = ord
          /\ s_work' = [subsets |-> <<epsilon_closure(nfa, nfa.initial_state)>>,
                        stack |-> <<epsilon_closure(nfa, nfa.initial_state)>>,
                        final_states |-> <<>>,
                        transitions |-> <<>>]
          /\ s_pushed' = <<epsilon_closure(nfa, nfa.initial_state)>>
    /\ s_pc' = "loop"
    /\ UNCHANGED <<s_expanded, s_out, lvars, mvars, avars, rvars>>

\* lines 310-342: one pass of the loop
SubsetExpand ==
    /\ s_pc = "loop"
    /\ s_work.stack # <<>>
    /\ s_work' = SubsetPass(s_nfa, s_ord, s_work)
    /\ s_expanded' = Append(s_expanded, s_work.stack[Len(s_work.stack)])
    /\ s_pushed' = s_pushed \o SubSeq(s_work'.stack, Len(s_work.stack), Len(s_work'.stack))
    /\ UNCHANGED <<s_pc, s_nfa, s_ord, s_out, lvars, mvars, avars, rvars>>

\* line 343: the stack is empty and ret is returned
SubsetReturn ==
    /\ s_pc = "loop"
    /\ s_work.stack = <<>>
    /\ s_out' = [initial_state |-> 0,
                 final_states |-> s_work.final_states,
                 transitions |-> s_work.transitions]
    /\ s_pc' = "done"
    /\ UNCHANGED <<s_nfa, s_ord, s_work, s_pushed, s_expanded, lvars, mvars, avars, rvars>>

SubsetNext ==
    \/ SubsetStart
    \/ SubsetExpand
    \/ SubsetReturn

SpecSubset == SubsetInit /\ [][SubsetNext]_vars

(***************************************************************************)
(* DFA::minimize applied to the DFAs subset construction builds from the   *)
(* NFAs of the algebra and from compiled patterns.                         *)
(***************************************************************************)
\* 'a', 'b' and the operators of the patterns that are minimized
MinRegexChars == {97, 98, LParen, RParen, Bar, Star, Question}

\* the patterns over these characters that compile
MinPatterns ==
    {re \in SeqsUpTo(MinRegexChars, MaxRegexLen) : compile_regex(re).kind = "Ok"}

\* DFA::from(compile_regex(re).unwrap())
MinRegexInputs == {DFAFromNFA(CompileUnwrap(re), ord) : re \in MinPatterns, ord \in ByteOrders}

MinBuiltInputs ==
    MinInputs \cup MinRegexInputs
        \cup {DFAFromNFA(nfa, ord) : nfa \in SubsetInputs, ord \in ByteOrders}

MinBuiltInit ==
    /\ m_pc = "start"
    /\ m_self \in MinBuiltInputs
    /\ partitions = <<>>
    /\ distinguishers = <<>>
    /\ m_a = {}
    /\ m_c = {}
    /\ m_out = DFANew
    /\ LexOff
    /\ AlgOff
    /\ RegexOff
    /\ SubsetOff

SpecMinBuilt == MinBuiltInit /\ [][MinNext]_vars

(***************************************************************************)
(* Reference semantics the properties are stated against.                  *)
(***************************************************************************)
RECURSIVE Bytes(_)
\* the UTF-8 encoding of a string
Bytes(str) == IF str = <<>> THEN <<>> ELSE encode_utf8(Head(str)) \o Bytes(Tail(str))

Prefix(str, n) == SubSeq(str, 1, n)

Suffix(str, n) == SubSeq(str, n + 1, Len(str))

\* the characters consumed so far
Consumed == Prefix(input, Len(input) - Len(chars))

\* the input that remained when the current attempt began
Rest == Suffix(input, start)

RECURSIVE NFAReach(_, _, _)
\* the NFA states reachable from the set S on the bytes bs
NFAReach(nfa, S, bs) ==
    IF bs = <<>> THEN S ELSE NFAReach(nfa, transition_set(nfa, S, Head(bs)), Tail(bs))

NFAAccepts(nfa, bs) ==
    NFAReach(nfa, epsilon_closure(nfa, nfa.initial_state), bs) \cap DOMAIN nfa.final_states # {}

\* the branch ids of the rules of a rule set that accept a string (0: discard)
RulesAccepting(rs, str) ==
    {k \in DOMAIN rs.rules : NFAAccepts(rs.rules[k], Bytes(str))}
    \cup (IF rs.discard # <<>> /\ NFAAccepts(rs.discard[1], Bytes(str)) THEN {0} ELSE {})

RECURSIVE DfaRun(_, _, _)
\* the DFA state reached from s on the bytes bs, NoState when the run dies
DfaRun(dfa, s, bs) ==
    IF s = NoState \/ bs = <<>> THEN s
    ELSE DfaRun(dfa, IF <<s, Head(bs)>> \in DOMAIN dfa.transitions
                     THEN dfa.transitions[<<s, Head(bs)>>] ELSE NoState, Tail(bs))

\* the DFA state after the first n characters of the attempt's input
StateAfter(n) == DfaRun(lexer.dfa, lexer.dfa.initial_state, Bytes(Prefix(Rest, n)))

AcceptingAfter(n) == StateAfter(n) \in DOMAIN lexer.dfa.final_states

\* the number of characters the DFA can walk over from the attempt's start
WalkLen == MaxOr0({n \in 0..Len(Rest) : StateAfter(n) # NoState})

\* the lengths of the non-empty accepted prefixes the walk passes through
AcceptLens == {n \in 1..WalkLen : AcceptingAfter(n)}

RECURSIVE RefLocation(_)
\* the reference line/column tally of a consumed string
RefLocation(str) ==
    IF str = <<>> THEN [line |-> 1, col |-> 0]
    ELSE LET before == RefLocation(Prefix(str, Len(str) - 1))
         IN IF str[Len(str)] = NewLine
            THEN [line |-> before.line + 1, col |-> 0]
            ELSE [line |-> before.line, col |-> before.col + 1]

RECURSIVE ConcatTexts(_)
ConcatTexts(ms) == IF ms = <<>> THEN <<>> ELSE Head(ms).text \o ConcatTexts(Tail(ms))

\* a call of next_token has just returned
Returned == pc = "idle" /\ result # NoResult

(***************************************************************************)
(* C1.  If the walk of an attempt passes through an accepting state and    *)
(* then stops in a non-accepting one, the call returns the token of the    *)
(* last accepted prefix (when its rule has a handler) and the input is     *)
(* positioned right after that prefix.                                     *)
(***************************************************************************)
PassedAccept == AcceptLens # {} /\ ~AcceptingAfter(WalkLen)

LastAcceptLen == MaxOr0(AcceptLens)

C1_RollbackToLastAccept ==
    (Returned /\ outcome \in {"token", "nomatch"} /\ PassedAccept
       /\ MinBranch(lexer.dfa, StateAfter(LastAcceptLen)) \in lexer.handlers)
    => /\ result.kind = "Ok"
       /\ result.text = Prefix(Rest, LastAcceptLen)
       /\ result.span = SpanNew(RefLocation(Prefix(input, start)),
                                RefLocation(Prefix(input, start + LastAcceptLen - 1)))
       /\ chars = Suffix(Rest, LastAcceptLen)

DiscardAccepts(text) == 0 \in RulesAccepting(RuleSets[ruleset], text)

C4_DiscardIsSilent ==
    /\ \A i \in DOMAIN matches :
           DiscardAccepts(matches[i].text) =>
               /\ matches[i].discarded
               /\ \A j \in DOMAIN invoked : invoked[j].start # matches[i].start
    /\ \A i \in DOMAIN matches :
           matches[i].discarded => lexer.discarded_branch = matches[i].branch
    /\ outcome = "discard" =>
           /\ pc = "entry"
           /\ result = NoResult
           /\ Len(Consumed) = start + Len(token)
    /\ result.kind = "Ok" =>
           /\ result.branch # lexer.discarded_branch
           /\ result.branch \in DOMAIN RuleSets[ruleset].rules
           /\ ~DiscardAccepts(result.text)

\* a call returns a token after it has discarded a match that a rule with a
\* handler accepts as well
C4_Witness ==
    /\ result.kind = "Ok"
    /\ Len(matches) >= 2
    /\ matches[Len(matches) - 1].discarded
    /\ RulesAccepting(RuleSets[ruleset], matches[Len(matches) - 1].text) \ {0} # {}
    /\ Len(entry.chars) = Len(input) - matches[Len(matches) - 1].start

(***************************************************************************)
(* C5.  As claimed: a call that fails with the no-match error leaves the   *)
(* iterator at the offending character, the first character of the attempt *)
(* for which the DFA had no transition.                                    *)
(***************************************************************************)
\* the 1-based index in Rest of the first character the walk cannot take, or 0
FirstNoTransition == IF WalkLen < Len(Rest) THEN WalkLen + 1 ELSE 0

C5_NoMatchAtOffendingChar ==
    result = ErrNoMatch =>
        /\ FirstNoTransition # 0
        /\ chars = Suffix(Rest, FirstNoTransition - 1)

(***************************************************************************)
(* C5, amended.  A call that fails with the no-match error either met a    *)
(* character without a transition, and the iterator is left at the first   *)
(* such character of the attempt (nothing is consumed and the location is  *)
(* that of the attempt's start when it is the attempt's first character),  *)
(* or walked to the end of the input in a non-accepting state, and the     *)
(* iterator is exhausted.                                                  *)
(***************************************************************************)
C5_NoMatchPosition ==
    result = ErrNoMatch =>
        /\ FirstNoTransition # 0 => chars = Suffix(Rest, FirstNoTransition - 1)
        /\ FirstNoTransition = 0 => chars = <<>> /\ ~AcceptingAfter(Len(Rest))
        /\ FirstNoTransition = 1 =>
               /\ chars = Rest
               /\ location = from
               /\ Len(entry.chars) = Len(Rest) =>
                      chars = entry.chars /\ location = entry.location

\* the no-match error at a two-byte character whose first byte has a
\* transition and whose second byte has none, as the attempt's first character
C5_Witness ==
    /\ result = ErrNoMatch
    /\ FirstNoTransition = 1
    /\ chars = entry.chars
    /\ Len(encode_utf8(Head(chars))) = 2
    /\ <<lexer.dfa.initial_state, encode_utf8(Head(chars))[1]>> \in DOMAIN lexer.dfa.transitions

(***************************************************************************)
(* C6.  A call made when the iterator is already exhausted fails with the  *)
(* end-of-input error, invokes no handler and leaves the location (and the *)
(* iterator) as they were.                                                 *)
(***************************************************************************)
C6_EofOnEntry ==
    [][(pc = "idle" /\ chars = <<>>) =>
          /\ result' = ErrEndOfFile
          /\ pc' = "idle"
          /\ invoked' = invoked
          /\ location' = location
          /\ chars' = chars]_vars

\* such a call has returned, after a token had been returned earlier
C6_Witness ==
    /\ Returned
    /\ result = ErrEndOfFile
    /\ entry.chars = <<>>
    /\ invoked # <<>>

(***************************************************************************)
(* C7.  The location is always (1 + the number of newlines consumed, the   *)
(* number of characters consumed since the last consumed newline); a fresh *)
(* state is at (1, 0).                                                     *)
(***************************************************************************)
NewlinesIn(str) == Cardinality({i \in DOMAIN str : str[i] = NewLine})

SinceLastNewline(str) ==
    Len(str) - MaxOr0({i \in DOMAIN str : str[i] = NewLine})

C7_LocationTally ==
    /\ location = LocationNew(1 + NewlinesIn(Consumed), SinceLastNewline(Consumed))
    /\ Consumed = <<>> => location = LocationNew(1, 0)

\* calls have consumed a newline and characters after it
C7_Witness ==
    /\ Returned
    /\ NewlinesIn(Consumed) >= 1
    /\ SinceLastNewline(Consumed) >= 1
    /\ SinceLastNewline(Consumed) < Len(Consumed) - 1

(***************************************************************************)
(* C8.  A returned token's span runs from the location at which its first  *)
(* character was read to the location at which its last character was      *)
(* read: n characters without a newline starting at column c give          *)
(* from.col = c and to.col = c + n - 1.                                    *)
(***************************************************************************)
C8_SpanOfToken ==
    result.kind = "Ok" =>
        LET n == Len(result.text)
        IN /\ n >= 1
           /\ result.span.from = RefLocation(Prefix(input, start))
           /\ result.span.to = RefLocation(Prefix(input, start + n - 1))
           /\ NewlinesIn(result.text) = 0 =>
                  /\ result.span.to.line = result.span.from.line
                  /\ result.span.to.col = result.span.from.col + n - 1

\* a token of two or more characters returned after a discarded match, and
\* not starting at column 0
C8_Witness ==
    /\ result.kind = "Ok"
    /\ Len(result.text) >= 2
    /\ NewlinesIn(result.text) = 0
    /\ result.span.from.col > 0
    /\ start > 0
    /\ Len(entry.chars) > Len(Rest)

(***************************************************************************)
(* C9.  As long as no call has failed with the no-match error, the texts   *)
(* of all matches, emitted and discarded, concatenated in order are        *)
(* exactly the input consumed, and the whole input once it is exhausted.   *)
(***************************************************************************)
C9_MatchesCoverInput ==
    ~nomatch =>
        /\ pc # "loop" => ConcatTexts(matches) = Consumed
        /\ pc = "loop" => ConcatTexts(matches) \o token = Consumed
        /\ (pc # "loop" /\ chars = <<>>) => ConcatTexts(matches) = input
        /\ \A i \in DOMAIN matches :
               matches[i].start = Len(ConcatTexts(Prefix(matches, i - 1)))

\* an input scanned to its end as three or more matches, one discarded
C9_Witness ==
    /\ ~nomatch
    /\ pc = "idle"
    /\ chars = <<>>
    /\ Len(matches) >= 3
    /\ \E i \in DOMAIN matches : matches[i].discarded
    /\ \E i \in DOMAIN matches : ~matches[i].discarded

(***************************************************************************)
(* C10.  For every byte string x the state reached by x in d.minimize()    *)
(* has the accept status and the branch ids of the state reached by x in   *)
(* d, and no two accepting states with different branch sets are merged.   *)
(***************************************************************************)
\* the bytes a DFA has transitions on
DfaBytes(dfa) == {k[2] : k \in DOMAIN dfa.transitions}

\* the branch ids reported for the byte string x: none when the run dies or
\* ends in a non-accepting state
BranchesAt(dfa, x) ==
    LET s == DfaRun(dfa, dfa.initial_state, x)
    IN IF s \in DOMAIN dfa.final_states THEN dfa.final_states[s] ELSE {}

C10_MinimizeKeepsBranches ==
    m_pc = "done" =>
        /\ \A x \in SeqsUpTo(DfaBytes(m_self), MaxProbeLen) :
               BranchesAt(m_out, x) = BranchesAt(m_self, x)
        /\ \A s, t \in DOMAIN m_self.final_states :
               BlockMap(partitions, s) = BlockMap(partitions, t)
                   => m_self.final_states[s] = m_self.final_states[t]

(***************************************************************************)
(* C11.  In a lexer built by define_lexer the handlers are stored under    *)
(* the keys 1..n of the n rules in declaration order, the discard pattern  *)
(* has branch id 0 and no handler, and the final states the combined NFA   *)
(* reaches on a string carry exactly the ids of the rules accepting it:    *)
(* k for the k-th rule, 0 for the discard pattern.                         *)
(***************************************************************************)
\* the branch ids of the final states an NFA reaches on the bytes bs
NFABranchesAt(nfa, bs) ==
    LET S == NFAReach(nfa, epsilon_closure(nfa, nfa.initial_state), bs)
    IN {nfa.final_states[u] : u \in S \cap DOMAIN nfa.final_states}

C11_BranchIdsInDeclarationOrder ==
    LET rs == RuleSets[ruleset]
        nfa == LexerNFA(rs)
    IN /\ lexer.handlers = DOMAIN rs.rules
       /\ rs.discard # <<>> => lexer.discarded_branch = 0 /\ 0 \notin lexer.handlers
       /\ Range(nfa.final_states) \subseteq
              DOMAIN rs.rules \cup (IF rs.discard # <<>> THEN {0} ELSE {})
       /\ input = <<>> =>
              \A x \in SeqsUpTo(InputChars, MaxProbeLen) :
                  NFABranchesAt(nfa, Bytes(x)) = RulesAccepting(rs, x)

\* the handler of a second rule has built a token after a discarded match
C11_Witness ==
    /\ RuleSets[ruleset].discard # <<>>
    /\ Returned
    /\ result.kind = "Ok"
    /\ result.branch = 2
    /\ \E i \in DOMAIN matches : matches[i].discarded /\ matches[i].branch = 0

(***************************************************************************)
(* C12.  While a call is in progress no handler has been invoked in it; a  *)
(* call that returns a token has invoked exactly one handler, after the    *)
(* walk had stopped in an accepting state, on the whole walked text and    *)
(* its span; a call that returns an error has invoked none.                *)
(***************************************************************************)
C12_HandlerOnceAfterFullMatch ==
    /\ pc \in {"entry", "loop"} => Len(invoked) = entry.ninvoked
    /\ Returned /\ result.kind = "Err" => Len(invoked) = entry.ninvoked
    /\ Returned /\ result.kind = "Ok" =>
          /\ Len(invoked) = entry.ninvoked + 1
          /\ LET h == invoked[Len(invoked)]
                 n == Len(h.text)
             IN /\ h.start = start
                /\ n = WalkLen
                /\ n >= 1
                /\ AcceptingAfter(n)
                /\ h.text = Prefix(Rest, n)
                /\ h.span = SpanNew(RefLocation(Prefix(input, start)),
                                    RefLocation(Prefix(input, start + n - 1)))
                /\ result = Handler(h.branch, h.text, h.span)

\* a call has discarded a match and then returned a token of two characters
C12_Witness ==
    /\ Returned
    /\ result.kind = "Ok"
    /\ Len(invoked) = entry.ninvoked + 1
    /\ Len(matches) >= 2
    /\ matches[Len(matches) - 1].discarded
    /\ Len(result.text) >= 2

(***************************************************************************)
(* C13.  compile_regex returns Ok or Err for every pattern: no call of it  *)
(* ends in a panic.                                                        *)
(***************************************************************************)
C13_CompileNeverPanics == re_pc # "panicked"

(***************************************************************************)
(* C14.  compile_regex returns an error for every pattern with an unclosed *)
(* '(' or '[' or an unmatched ')' or ']'.                                  *)
(***************************************************************************)
RECURSIVE UnbalancedFrom(_, _, _)
\* the rest of a pattern is unbalanced, depth groups being open and
\* in_class telling whether a class is open; an escaped character is no bracket
UnbalancedFrom(re, depth, in_class) ==
    IF re = <<>> THEN depth > 0 \/ in_class
    ELSE IF Head(re) = Backslash THEN UnbalancedFrom(Advance(Tail(re)), depth, in_class)
    ELSE IF in_class THEN UnbalancedFrom(Tail(re), depth, Head(re) # RBracket)
    ELSE IF Head(re) = LBracket THEN UnbalancedFrom(Tail(re), depth, TRUE)
    ELSE IF Head(re) = LParen THEN UnbalancedFrom(Tail(re), depth + 1, FALSE)
    ELSE IF Head(re) = RParen THEN depth = 0 \/ UnbalancedFrom(Tail(re), depth - 1, FALSE)
    ELSE IF Head(re) = RBracket THEN TRUE
    ELSE UnbalancedFrom(Tail(re), depth, FALSE)

C14_UnbalancedIsError ==
    re_pc \in {"done", "panicked"} /\ UnbalancedFrom(regex, 0, FALSE) => re_out.kind = "Err"

(***************************************************************************)
(* C15.  compile_regex returns an error for every pattern with a class     *)
(* that has no item, `[]` or `[^]`.                                        *)
(***************************************************************************)
RECURSIVE HasEmptyClass(_, _)
\* a class opened in the rest of a pattern is closed before its first item
HasEmptyClass(re, in_class) ==
    IF re = <<>> THEN FALSE
    ELSE IF Head(re) = Backslash THEN HasEmptyClass(Advance(Tail(re)), in_class)
    ELSE IF in_class THEN HasEmptyClass(Tail(re), Head(re) # RBracket)
    ELSE IF Head(re) = LBracket
    THEN LET items == IF Peek(Tail(re)) = Caret THEN Advance(Tail(re)) ELSE Tail(re)
         IN Peek(items) = RBracket \/ HasEmptyClass(items, TRUE)
    ELSE HasEmptyClass(Tail(re), FALSE)

C15_EmptyClassIsError ==
    re_pc \in {"done", "panicked"} /\ HasEmptyClass(regex, FALSE) => re_out.kind = "Err"

(***************************************************************************)
(* C16.  An unescaped metacharacter ( ) [ | * + ? . is a literal item      *)
(* inside a class: a class of one such character compiles, the pattern     *)
(* `[eE][+\-]?[0-9]+` compiles, and `[+\-]` compiles to an NFA that        *)
(* accepts '+' and '-' and no other string.                                *)
(***************************************************************************)
ClassMetachars == {LParen, RParen, LBracket, Bar, Star, Plus, Question, Dot}

C16_MetacharsLiteralInClass ==
    re_pc \in {"done", "panicked"} =>
        /\ (\E m \in ClassMetachars : regex = <<LBracket, m, RBracket>>) => re_out.kind = "Ok"
        /\ regex = PatExponent => re_out.kind = "Ok"
        /\ regex = PatSignClass =>
              /\ re_out.kind = "Ok"
              /\ \A x \in SeqsUpTo({Plus, Dash, Backslash, 97}, 2) :
                    NFAAccepts(Build(re_out.nfa), Bytes(x)) <=> x \in {<<Plus>>, <<Dash>>}

(***************************************************************************)
(* C17.  With the rules discard "[ \t\n]+", "[1-9][0-9]*" -> Int and       *)
(* "\+" -> Plus the calls on "12 + 345" return Int "12", Plus "+" and      *)
(* Int "345", each with its span, and the input is then exhausted: no      *)
(* call fails before, and every later call returns the end-of-file error.  *)
(***************************************************************************)
\* a handler invocation on a token of one line
Invocation(branch, text, first, last) ==
    [branch |-> branch, text |-> text,
     span |-> SpanNew(LocationNew(1, first), LocationNew(1, last)), start |-> first]

\* the scan so far has produced the first tokens of `expected`, nothing else
ScanFollows(expected) ==
    /\ ~nomatch
    /\ Len(invoked) <= Len(expected)
    /\ invoked = SubSeq(expected, 1, Len(invoked))
    /\ Returned /\ result.kind = "Ok" =>
          result = Handler(invoked[Len(invoked)].branch, invoked[Len(invoked)].text,
                           invoked[Len(invoked)].span)
    /\ Len(invoked) = Len(expected) => chars = <<>>
    /\ Returned /\ result.kind = "Err" =>
          result = ErrEndOfFile /\ Len(invoked) = Len(expected)

C17_IntPlusInt ==
    ruleset = Len(RuleSets) + 1 /\ input = InputIntPlusInt =>
        ScanFollows(<<Invocation(1, <<49, 50>>, 0, 1),
                      Invocation(2, <<Plus>>, 3, 3),
                      Invocation(1, <<51, 52, 53>>, 5, 7)>>)

\* the third call has returned Int "345" and the input is exhausted
C17_Witness ==
    /\ ruleset = Len(RuleSets) + 1
    /\ input = InputIntPlusInt
    /\ Returned
    /\ result.kind = "Ok"
    /\ Len(invoked) = 3
    /\ chars = <<>>

(***************************************************************************)
(* C18.  With "[a-z]+" -> Id declared first and "if" -> If second          *)
(* (whitespace discarded), the scan of "if ifx" yields If "if" and then    *)
(* Id "ifx".                                                               *)
(***************************************************************************)
C18_IfThenId ==
    ruleset = Len(RuleSets) + 2 /\ input = InputIfIfx =>
        ScanFollows(<<Invocation(2, <<105, 102>>, 0, 1),
                      Invocation(1, <<105, 102, 120>>, 3, 5)>>)

\* C18 as the program has it: both "if" and "ifx" are Id tokens, the tie on
\* "if" going to the rule declared first
C18_IdThenId ==
    ruleset = Len(RuleSets) + 2 /\ input = InputIfIfx =>
        ScanFollows(<<Invocation(1, <<105, 102>>, 0, 1),
                      Invocation(1, <<105, 102, 120>>, 3, 5)>>)

\* the second call has returned the token of "ifx" and the input is exhausted
C18_Witness ==
    /\ ruleset = Len(RuleSets) + 2
    /\ input = InputIfIfx
    /\ Returned
    /\ result.kind = "Ok"
    /\ Len(invoked) = 2
    /\ chars = <<>>

(***************************************************************************)
(* C19.  What a call of next_token returns, and the input it leaves, are   *)
(* determined by the rule list, the input and the position of the call:   *)
(* they are those of a scan by the rules' NFAs, in which neither the order *)
(* of the bytes in subset construction nor a DFA state number occurs.  So  *)
(* the sequence of results is the same in every execution.                 *)
(***************************************************************************)
\* some state of an NFA is reached on the bytes bs
NFAAlive(nfa, bs) == NFAReach(nfa, epsilon_closure(nfa, nfa.initial_state), bs) # {}

\* some pattern of a rule set has a run on a string
RulesAlive(rs, str) ==
    \/ \E k \in DOMAIN rs.rules : NFAAlive(rs.rules[k], Bytes(str))
    \/ rs.discard # <<>> /\ NFAAlive(rs.discard[1], Bytes(str))

RECURSIVE RefCall(_, _)
\* the result of a call made with pos characters of the input consumed, and
\* the number of characters consumed when it returns
RefCall(rs, pos) ==
    IF pos = Len(input) THEN [result |-> ErrEndOfFile, pos |-> pos]
    ELSE LET rest == Suffix(input, pos)
             n == MaxOr0({m \in 1..Len(rest) : RulesAlive(rs, Prefix(rest, m))})
             ids == RulesAccepting(rs, Prefix(rest, n))
         IN IF n = 0 \/ ids = {} THEN [result |-> ErrNoMatch, pos |-> pos + n]
            ELSE IF MinOf(ids) \in DOMAIN rs.rules
            THEN [result |-> Handler(MinOf(ids), Prefix(rest, n),
                                     SpanNew(RefLocation(Prefix(input, pos)),
                                             RefLocation(Prefix(input, pos + n - 1)))),
                  pos |-> pos + n]
            ELSE RefCall(rs, pos + n)

C19_ResultsIndependentOfNumbering ==
    Returned =>
        LET ref == RefCall(RuleSets[ruleset], Len(input) - Len(entry.chars))
        IN /\ result = ref.result
           /\ chars = Suffix(input, ref.pos)

\* a token has been returned after a discarded match by a lexer whose DFA is
\* not the one the ascending byte order numbers
C19_Witness ==
    /\ Returned
    /\ result.kind = "Ok"
    /\ Len(matches) >= 2
    /\ matches[Len(matches) - 1].discarded
    /\ lexer.dfa # LexerOf(RuleSets[ruleset], "asc").dfa

(***************************************************************************)
(* C20.  For every NFA a built by the algebra, zero_or_more applied to     *)
(* zero_or_more(a) and optional applied to zero_or_more(a) accept exactly  *)
(* the strings zero_or_more(a) accepts.                                    *)
(***************************************************************************)
\* the byte strings the languages of the algebra's NFAs are compared on
AlgProbes == SeqsUpTo({97, 98}, MaxProbeLen)

RECURSIVE InStar(_, _)
\* x is a concatenation of zero or more strings the NFA accepts
InStar(nfa, x) ==
    \/ x = <<>>
    \/ \E n \in 1..Len(x) : NFAAccepts(nfa, Prefix(x, n)) /\ InStar(nfa, Suffix(x, n))

C21_StarIsKleeneClosure ==
    alg_pc = "on" =>
        \A x \in AlgProbes : NFAAccepts(zero_or_more(alg_nfa), x) <=> InStar(alg_nfa, x)

(***************************************************************************)
(* C22: for every NFA a built by the constructors and combinators,         *)
(* optional(a) accepts exactly the strings of L(a) and the empty string.   *)
(***************************************************************************)
C22_OptionalAddsEmptyString ==
    alg_pc = "on" =>
        \A x \in AlgProbes :
            NFAAccepts(optional(alg_nfa), x) <=> (x = <<>> \/ NFAAccepts(alg_nfa, x))

(***************************************************************************)
(* C23: in every NFA produced by the algebra no edge, byte or epsilon,     *)
(* leads to the initial state.                                             *)
(***************************************************************************)
C23_InitialHasNoInEdge ==
    alg_pc = "on" =>
        \A e \in Range(alg_nfa.transitions) : e[3] # alg_nfa.initial_state

(***************************************************************************)
(* C24: for NFAs a and b built by the algebra and every byte string x, the *)
(* branch ids of the final states alternation(a, b) reaches on x are those *)
(* a reaches on x together with those b reaches on x.                      *)
(***************************************************************************)
\* the NFA of the machine and the other operand, tagged with different branches
AlgTagged == set_branch(alg_nfa, 1)

AlgOthers == {set_branch(Build(e), 2) : e \in AlgOperands}

C24_AlternationIsUnion ==
    alg_pc = "on" =>
        \A b \in AlgOthers, x \in AlgProbes :
            /\ NFABranchesAt(bitor(AlgTagged, b), x)
                   = NFABranchesAt(AlgTagged, x) \cup NFABranchesAt(b, x)
            /\ NFABranchesAt(bitor(b, AlgTagged), x)
                   = NFABranchesAt(AlgTagged, x) \cup NFABranchesAt(b, x)

(***************************************************************************)
(* C25: for NFAs a and b built by the algebra, concat(a, b) accepts        *)
(* exactly the strings uv with u in L(a) and v in L(b), and its final      *)
(* states are the renumbered final states of b with b's branch ids.        *)
(***************************************************************************)
\* x is a string of L(a) followed by a string of L(b)
InConcat(a, b, x) ==
    \E n \in 0..Len(x) : NFAAccepts(a, Prefix(x, n)) /\ NFAAccepts(b, Suffix(x, n))

\* the final states of ab are those of b moved up by the number of a's states
FinalsOfRight(ab, a, b) ==
    /\ DOMAIN ab.final_states = {y + NFAMaxStateId(a) + 1 : y \in DOMAIN b.final_states}
    /\ \A y \in DOMAIN b.final_states :
           ab.final_states[y + NFAMaxStateId(a) + 1] = b.final_states[y]

C25_ConcatIsProduct ==
    alg_pc = "on" =>
        \A b \in AlgOthers :
            /\ FinalsOfRight(bitand(AlgTagged, b), AlgTagged, b)
            /\ FinalsOfRight(bitand(b, AlgTagged), b, AlgTagged)
            /\ \A x \in AlgProbes :
                   /\ NFAAccepts(bitand(AlgTagged, b), x) <=> InConcat(AlgTagged, b, x)
                   /\ NFAAccepts(bitand(b, AlgTagged), x) <=> InConcat(b, AlgTagged, x)

(***************************************************************************)
(* C26: the renumbered states of the right operand of a combinator never   *)
(* coincide with a state of the left operand, and the fresh state of       *)
(* alternation or optional never coincides with an existing state.         *)
(***************************************************************************)
\* the states an NFA has: initial, final, and the ends of its edges
NFAStates(nfa) ==
    {nfa.initial_state} \cup DOMAIN nfa.final_states
        \cup UNION {{e[1], e[3]} : e \in Range(nfa.transitions)}

\* the states of the right operand after renumbering
Renumbered(a, b) == {y + NFAMaxStateId(a) + 1 : y \in NFAStates(b)}

FreshStatesApart(a, b) ==
    /\ Renumbered(a, b) \cap NFAStates(a) = {}
    /\ bitor(a, b).initial_state \notin NFAStates(a) \cup Renumbered(a, b)

C26_StatesNeverCoincide ==
    alg_pc = "on" =>
        /\ NFAMaxStateId(alg_nfa) + 1 \notin NFAStates(alg_nfa)
        /\ \A b \in AlgOthers : FreshStatesApart(alg_nfa, b) /\ FreshStatesApart(b, alg_nfa)

(***************************************************************************)
(* C27: for every NFA n and byte string x, DFA::from(n) has a run on x     *)
(* exactly when some state of n is reachable on x, and the state it        *)
(* reaches is accepting with branch set B exactly when B is the non-empty  *)
(* set of branch ids of the final states of n reachable on x.              *)
(***************************************************************************)
RECURSIVE EpsilonReach(_, _)
\* the states reachable from the set S by epsilon edges alone
EpsilonReach(nfa, S) ==
    LET T == S \cup {e[3] : e \in {f \in Range(nfa.transitions) :
                                      f[1] \in S /\ f[2] = Epsilon}}
    IN IF T = S THEN S ELSE EpsilonReach(nfa, T)

RECURSIVE ReachOn(_, _)
\* the states of an NFA reachable from its initial state on the bytes x
ReachOn(nfa, x) ==
    IF x = <<>> THEN EpsilonReach(nfa, {nfa.initial_state})
    ELSE LET S == ReachOn(nfa, Prefix(x, Len(x) - 1))
         IN EpsilonReach(nfa, {e[3] : e \in {f \in Range(nfa.transitions) :
                                                f[1] \in S /\ f[2] = x[Len(x)]}})

\* the byte strings a DFA is compared with its NFA on: over the bytes of
\* the NFA and one byte it has no edge for
SubsetProbes(nfa) ==
    SeqsUpTo(({e[2] : e \in Range(nfa.transitions)} \ {Epsilon}) \cup {99}, MaxProbeLen)

C27_SubsetConstructionIsEquivalent ==
    s_pc = "done" =>
        /\ \A s \in DOMAIN s_out.final_states : s_out.final_states[s] # {}
        /\ \A x \in SubsetProbes(s_nfa) :
               LET S == ReachOn(s_nfa, x)
               IN /\ DfaRun(s_out, s_out.initial_state, x) # NoState <=> S # {}
                  /\ BranchesAt(s_out, x)
                         = {s_nfa.final_states[u] : u \in S \cap DOMAIN s_nfa.final_states}

\* a DFA with a state of two branches, built from an NFA with epsilon edges,
\* and with a run that dies
C27_Witness ==
    /\ s_pc = "done"
    /\ \E s \in DOMAIN s_out.final_states : Cardinality(s_out.final_states[s]) = 2
    /\ \E e \in Range(s_nfa.transitions) : e[2] = Epsilon
    /\ \E x \in SubsetProbes(s_nfa) : DfaRun(s_out, s_out.initial_state, x) = NoState

(***************************************************************************)
(* C28: in the DFA of subset construction the initial state is 0, the      *)
(* state ids are exactly 0..n-1, every state is reachable from state 0 and *)
(* distinct ids stand for distinct subsets; every subset is numbered once, *)
(* pushed once and expanded once, and the construction terminates: every   *)
(* pass expands one more of the finitely many sets of NFA states, and with *)
(* the stack empty the DFA is returned.                                    *)
(***************************************************************************)
\* a sequence without a repeated element
NoRepeat(seq) == \A i, j \in DOMAIN seq : seq[i] = seq[j] => i = j

\* the state ids a DFA uses
DfaStates(dfa) ==
    {dfa.initial_state} \cup DOMAIN dfa.final_states
        \cup UNION {{k[1], dfa.transitions[k]} : k \in DOMAIN dfa.transitions}

RECURSIVE DfaReachable(_, _)
\* the states a DFA reaches from the states S
DfaReachable(dfa, S) ==
    LET T == S \cup {dfa.transitions[k] : k \in {j \in DOMAIN dfa.transitions : j[1] \in S}}
    IN IF T = S THEN S ELSE DfaReachable(dfa, T)

\* numbered once, pushed once, expanded at most once
SubsetsOnce ==
    /\ NoRepeat(s_work.subsets)
    /\ NoRepeat(s_pushed)
    /\ NoRepeat(s_expanded)
    /\ Range(s_pushed) = Range(s_work.subsets)
    /\ Range(s_expanded) \cup Range(s_work.stack) = Range(s_pushed)
    /\ Range(s_expanded) \cap Range(s_work.stack) = {}

\* the DFA returned
SubsetDfaShape ==
    /\ s_out.initial_state = 0
    /\ s_work.subsets[1] = epsilon_closure(s_nfa, s_nfa.initial_state)
    /\ DfaStates(s_out) = 0..(Len(s_work.subsets) - 1)
    /\ DfaReachable(s_out, {0}) = DfaStates(s_out)
    /\ Range(s_expanded) = Range(s_work.subsets)

\* a step of the loop: one more subset of the NFA's states is expanded, or
\* the stack is empty and the construction returns
SubsetProgress ==
    s_pc = "loop" =>
        \/ /\ s_pc' = "loop"
           /\ Len(s_expanded') = Len(s_expanded) + 1
           /\ Range(s_work'.subsets) \subseteq SUBSET NFAStates(s_nfa)
        \/ /\ s_pc' = "done"
           /\ s_work.stack = <<>>

C28_SubsetsNumberedOnce ==
    /\ [](s_pc \in {"loop", "done"} => SubsetsOnce)
    /\ [](s_pc = "done" => SubsetDfaShape)
    /\ [][SubsetProgress]_vars

\* a DFA of three states or more with an edge to a subset numbered before
C28_Witness ==
    /\ s_pc = "done"
    /\ Len(s_work.subsets) >= 3
    /\ Cardinality(DOMAIN s_out.transitions) >= Len(s_work.subsets)

(***************************************************************************)
(* C29: for every DFA d of subset construction and every byte string x,    *)
(* d.minimize() accepts x if and only if d accepts x, and the initial      *)
(* state of the result is the block that holds d's initial state.          *)
(***************************************************************************)
\* the byte strings a DFA and its minimization are compared on
MinProbes(dfa) == SeqsUpTo(DfaBytes(dfa), MaxProbeLen)

C29_MinimizeKeepsAcceptance ==
    m_pc = "done" =>
        /\ m_self.initial_state \in partitions[m_out.initial_state + 1]
        /\ \A x \in MinProbes(m_self) :
               BranchesAt(m_out, x) # {} <=> BranchesAt(m_self, x) # {}

\* two states of d were merged, and d accepts some strings and rejects others
C29_Witness ==
    /\ m_pc = "done"
    /\ Cardinality(DfaStates(m_out)) < Cardinality(DfaStates(m_self))
    /\ \E x \in MinProbes(m_self) : Len(x) = MaxProbeLen /\ BranchesAt(m_self, x) # {}
    /\ \E x \in MinProbes(m_self) : BranchesAt(m_self, x) = {}

(***************************************************************************)
(* C30: for a DFA d of subset construction from a compiled pattern,        *)
(* d.minimize() has no two distinct states that accept the same set of     *)
(* byte strings, a missing transition rejecting: the refinement ends with  *)
(* the coarsest stable partition.                                          *)
(***************************************************************************)
\* the state a DFA moves to, NoState standing for the rejecting sink
Delta(dfa, p, b) ==
    IF <<p, b>> \in DOMAIN dfa.transitions THEN dfa.transitions[<<p, b>>] ELSE NoState

RECURSIVE SameLanguage(_, _)
\* the pairs of eq that no byte string tells apart: eq is refined until every
\* pair moves to a pair of eq on every byte
SameLanguage(dfa, eq) ==
    LET kept == {pq \in eq : \A b \in DfaBytes(dfa) :
                    <<Delta(dfa, pq[1], b), Delta(dfa, pq[2], b)>> \in eq}
    IN IF kept = eq THEN eq ELSE SameLanguage(dfa, kept)

\* the pairs of states, the sink among them, that accept the same strings
Equivalent(dfa) ==
    LET S == DfaStates(dfa) \cup {NoState}
    IN SameLanguage(dfa, {pq \in S \X S : (pq[1] \in DOMAIN dfa.final_states)
                                            = (pq[2] \in DOMAIN dfa.final_states)})

\* every key of the mapped transition table collects one target
StablePartition(dfa, parts) ==
    \A k \in DOMAIN dfa.transitions :
        Cardinality(MappedTargets(dfa, parts, <<BlockMap(parts, k[1]), k[2]>>)) = 1

C30_MinimizeIsMinimal ==
    (m_pc = "done" /\ m_self \in MinRegexInputs) =>
        /\ StablePartition(m_self, partitions)
        /\ \A p, q \in DfaStates(m_out) : <<p, q>> \in Equivalent(m_out) => p = q

\* the DFA of a pattern had equivalent states and a block in the worklist was
\* split: the result has fewer states, and more than the first two blocks
C30_Witness ==
    /\ m_pc = "done"
    /\ m_self \in MinRegexInputs
    /\ \E p, q \in DfaStates(m_self) : p # q /\ <<p, q>> \in Equivalent(m_self)
    /\ Cardinality(DfaStates(m_out)) >= 3

(***************************************************************************)
(* C31: after minimization the state ids are dense and packed from 0: the  *)
(* ids used by the initial state, the final states and the transitions are *)
(* exactly 0..n-1 for a DFA of n states, and no id is assigned to an empty *)
(* block, also when every state or no state of the input is accepting.     *)
(***************************************************************************)
\* the blocks that hold a state
NonEmptyBlocks(parts) == {p \in Range(parts) : p # {}}

C31_MinimizedIdsDense ==
    m_pc = "done" =>
        /\ DfaStates(m_out) = 0..(Cardinality(NonEmptyBlocks(partitions)) - 1)
        /\ \A p \in Range(partitions) : p # {}

(***************************************************************************)
(* C32: the DFA stored in a lexer built by define_lexer is the minimized   *)
(* DFA of the combined NFA: it has no two distinct states that are         *)
(* equivalent with respect to the strings accepted and the branch sets     *)
(* reported.                                                               *)
(***************************************************************************)
\* the branch set a state reports, none for a non-accepting state or the sink
StateBranches(dfa, p) ==
    IF p \in DOMAIN dfa.final_states THEN dfa.final_states[p] ELSE {}

\* the pairs of states, the sink among them, from which every byte string
\* reports the same branch set
EquivalentWithBranches(dfa) ==
    LET S == DfaStates(dfa) \cup {NoState}
    IN SameLanguage(dfa, {pq \in S \X S : StateBranches(dfa, pq[1]) = StateBranches(dfa, pq[2])})

C32_LexerDfaIsMinimized ==
    pc = "idle" =>
        \A p, q \in DfaStates(lexer.dfa) :
            <<p, q>> \in EquivalentWithBranches(lexer.dfa) => p = q

(***************************************************************************)
(* C33: if some byte of the peeked character's UTF-8 encoding has no       *)
(* transition, the character is not consumed, and the committed DFA state, *)
(* the token buffer, the span end and the location stay as they were       *)
(* before the character was tried, also when earlier bytes of the same     *)
(* character did have transitions.                                         *)
(***************************************************************************)
\* byte i of bs is the first without a transition on the way from state s
FailsAtByte(dfa, s, bs, i) ==
    LET t == DfaRun(dfa, s, SubSeq(bs, 1, i - 1))
    IN t # NoState /\ <<t, bs[i]>> \notin DOMAIN dfa.transitions

\* the loop is about to try a character one of whose bytes has no transition
TriesRejectedChar ==
    /\ pc = "loop"
    /\ chars # <<>>
    /\ ch_accepted
    /\ \E i \in DOMAIN encode_utf8(Head(chars)) :
           FailsAtByte(lexer.dfa, dfa_state, encode_utf8(Head(chars)), i)

C33_RejectedCharLeavesState ==
    [][TriesRejectedChar =>
          /\ chars' = chars
          /\ dfa_state' = dfa_state
          /\ token' = token
          /\ to' = to
          /\ location' = location
          /\ ~ch_accepted']_vars

\* a two-byte character has been rejected at its second byte, after a
\* character had been committed
C33_Witness ==
    /\ pc = "loop"
    /\ ~ch_accepted
    /\ chars # <<>>
    /\ token # <<>>
    /\ FailsAtByte(lexer.dfa, dfa_state, encode_utf8(Head(chars)), 2)

(***************************************************************************)
(* C34: a character class whose items are single characters or ranges l-r  *)
(* with l <= r compiles to an NFA that accepts exactly the UTF-8 encodings *)
(* of the scalars covered by at least one item, or, when negated with '^', *)
(* exactly those of the scalars in [U+0000, U+FFFF] covered by no item;    *)
(* overlapping and adjacent items are merged.                              *)
(***************************************************************************)
\* the class is negated
ClassNegated(re) == re[2] = Caret

RECURSIVE ItemsOf(_)
\* the items <<l, r>> written in the text between the brackets
ItemsOf(text) ==
    IF text = <<>> THEN <<>>
    ELSE IF Len(text) >= 3 /\ text[2] = Dash
    THEN <<<<text[1], text[3]>>>> \o ItemsOf(SubSeq(text, 4, Len(text)))
    ELSE <<<<text[1], text[1]>>>> \o ItemsOf(Tail(text))

ClassItemsOf(re) == ItemsOf(SubSeq(re, IF ClassNegated(re) THEN 3 ELSE 2, Len(re) - 1))

\* the scalar v belongs to the class
InClass(re, v) ==
    LET covered == \E i \in Range(ClassItemsOf(re)) : i[1] <= v /\ v <= i[2]
    IN IF ClassNegated(re) THEN v <= 65535 /\ ~covered ELSE covered

\* the scalars the class is probed with: those of the items, their
\* neighbours, the first scalars past U+FFFF and the last scalar
ClassProbes ==
    {v \in UNION {{u - 1, u, u + 1} : u \in ClassScalars \cup {65536}} \cup {1114111} : IsScalar(v)}

\* byte strings that are the encoding of no scalar: the empty string, two
\* characters, a lead byte alone, a continuation byte alone
NonEncodings == {<<>>, <<97, 97>>, <<0, 0>>, <<196>>, <<167>>, <<196, 167, 97>>, <<239, 191>>}

C34_ClassAcceptsCoveredScalars ==
    (re_pc # "ready" /\ ClassItemsOf(regex) # <<>>) =>
        /\ re_out.kind = "Ok"
        /\ \A v \in ClassProbes :
               NFAAccepts(Build(re_out.nfa), encode_utf8(v)) <=> InClass(regex, v)
        /\ \A x \in NonEncodings : ~NFAAccepts(Build(re_out.nfa), x)

(***************************************************************************)
(* C35: every match made by next_token, emitted or discarded, consumes at  *)
(* least one character, also when a rule accepts the empty string: no      *)
(* empty token is returned, the discard recursion of a call is bounded by  *)
(* the input that remained when the call was made, and the loop that calls *)
(* next_token until eof() or the first error terminates.                   *)
(***************************************************************************)
\* the matches the current call of the caller has discarded
DiscardsOfCall ==
    {i \in DOMAIN matches :
        matches[i].discarded /\ matches[i].start >= Len(input) - Len(entry.chars)}

MatchesConsume ==
    /\ \A i \in DOMAIN matches : matches[i].text # <<>>
    /\ outcome \in {"token", "discard"} => Len(Consumed) > start
    /\ result.kind = "Ok" => result.text # <<>>
    /\ Cardinality(DiscardsOfCall) <= Len(entry.chars)

\* the loop of main has ended
ScanEnded == pc = "idle" /\ (eof \/ result.kind = "Err")

C35_EveryMatchConsumes == []MatchesConsume /\ <>ScanEnded

\* the initial state of the DFA accepts, the discard pattern among the
\* accepting rules, and the scan has reached the end of the input through a
\* discarded match and a token
C35_Witness ==
    /\ ScanEnded
    /\ eof
    /\ 0 \in StateBranches(lexer.dfa, lexer.dfa.initial_state)
    /\ Len(matches) >= 2
    /\ \E i \in DOMAIN matches : matches[i].discarded
    /\ result.kind = "Ok"

(***************************************************************************)
(* C36: if the input remaining at a call of next_token consists entirely   *)
(* of text matched by the discard rule, the call consumes that text and    *)
(* then fails with the end-of-input error, not with the no-match error and *)
(* not with a token, although the iterator was not exhausted on entry.     *)
(***************************************************************************)
RECURSIVE OnlyDiscards(_, _)
\* the input from pos on is a sequence of matches of the discard pattern:
\* each is the longest prefix some pattern accepts, and the discard pattern
\* is the first of those accepting it
OnlyDiscards(rs, pos) ==
    IF pos = Len(input) THEN TRUE
    ELSE LET rest == Suffix(input, pos)
             n == MaxOr0({m \in 1..Len(rest) : RulesAccepting(rs, Prefix(rest, m)) # {}})
         IN /\ n > 0
            /\ MinOf(RulesAccepting(rs, Prefix(rest, n))) = 0
            /\ OnlyDiscards(rs, pos + n)

\* a call made with input left, all of it text of the discard pattern, has returned
ReturnedOverDiscards ==
    /\ Returned
    /\ entry.chars # <<>>
    /\ OnlyDiscards(ScanRuleSets[ruleset], Len(input) - Len(entry.chars))

C36_OnlyDiscardsEndsInEof ==
    ReturnedOverDiscards =>
        /\ result = ErrEndOfFile
        /\ chars = <<>>
        /\ Len(invoked) = entry.ninvoked

=============================================================================
